---- MODULE Spec2Model ----
(***************************************************************************)
(* Model of the model-serving processes of the repository:                 *)
(*   main.py             startup load of MODEL / PREPROCESSOR and handlers *)
(*   main_intelligent.py IntelligentModelLoader fallback chain + handlers  *)
(*   main_simple.py      handlers that load the artifacts per request      *)
(* together with the artifact files the trainer and data processor write.  *)
(***************************************************************************)
EXTENDS Integers, Sequences, FiniteSets, TLC

VARIABLES
    variant,            \* which entry module this process runs
    pc,                 \* position of the process
    JOBLIB_AVAILABLE,   \* main_intelligent.py:29-33
    PANDAS_AVAILABLE,   \* main_intelligent.py:23-27
    dvc,                \* what the remote versioned store does when asked
    sklearn,            \* what building the fallback model does
    model_file,         \* the model artifact on local disk
    preprocessor_file,  \* the preprocessor artifact on local disk
    artifact_features,  \* feature count the artifacts were fitted on
    model_loader,       \* main_intelligent.py: model, preprocessor, model_available
    attempted,          \* strategies load_models has tried, with their outcome
    MODEL,              \* main.py:48
    PREPROCESSOR,       \* main.py:49
    MODEL_LOADED,       \* main.py:50
    prediction_errors,  \* the prediction_errors counter
    response,           \* the response to the last request
    invoked,            \* what the last request called: preprocessor, model
    request,            \* the JSON body of the last request
    host_tools,         \* what running each command line tool does on this host
    host_modules,       \* what importing each Python package does on this host
    torch_cuda,         \* torch.cuda.is_available() on this host
    free_ports,         \* the ports of localhost a bind succeeds on
    ollama_listed,      \* what `ollama list` prints: ok flag and model names
    ollama_shown,       \* the models `ollama show <model>` exits 0 for
    dirs,               \* the directories that exist under base_path
    host_epoch,         \* counts the changes of the host so far
    available_modules,  \* IntelligentConfig.available_modules, the cache
    ports_call,         \* the last direct get_available_ports call and its result
    torch_imported,     \* intelligent_config's module-level torch is not None
    main_import,        \* how far main.py has come in being imported
    cfg_pc,             \* where the running get_dynamic_config call stands
    cfg,                \* the configuration that call has built so far
    last_probe,         \* the last detect_environment call and its result
    last_call,          \* the last finished get_dynamic_config call
    call_repeated,      \* that call repeated the one before it on the same host
    data_file,          \* the header of data/raw/data.csv, <<>> while it is missing
    pip_works,          \* pip install exits 0 on this host
    heal_call,          \* the last heal_project call and what it returned
    task_call,          \* the last orchestrate_agent_task call and its record
    deploy_call         \* the last Deployer.deploy call and the commands it ran

vars == <<variant, pc, JOBLIB_AVAILABLE, PANDAS_AVAILABLE, dvc, sklearn,
          model_file, preprocessor_file, artifact_features, model_loader,
          attempted, MODEL, PREPROCESSOR, MODEL_LOADED, prediction_errors,
          response, invoked, request, host_tools, host_modules, torch_cuda, free_ports,
          ollama_listed, ollama_shown, dirs, host_epoch, available_modules,
          ports_call, torch_imported, main_import, cfg_pc, cfg, last_probe, last_call,
          call_repeated, data_file, pip_works, heal_call, task_call, deploy_call>>

\* the host as IntelligentConfig probes it
host == <<host_tools, host_modules, torch_cuda, free_ports, ollama_listed,
          ollama_shown, dirs, host_epoch>>

\* the state of IntelligentConfig and of the calls made on it
config_state == <<available_modules, ports_call, torch_imported, main_import, cfg_pc, cfg,
                  last_probe, last_call, call_repeated>>

\* the project's sample data, the package index, and the calls that heal,
\* orchestrate and deploy
project_vars == <<data_file, pip_works, heal_call, task_call, deploy_call>>

config_vars == <<host, config_state, project_vars>>

\* the state of the serving processes
serving_vars == <<variant, pc, JOBLIB_AVAILABLE, PANDAS_AVAILABLE, dvc, sklearn,
                  model_file, preprocessor_file, artifact_features, model_loader,
                  attempted, MODEL, PREPROCESSOR, MODEL_LOADED, prediction_errors,
                  response, invoked, request>>

env == <<JOBLIB_AVAILABLE, PANDAS_AVAILABLE, dvc, sklearn, artifact_features>>
files == <<model_file, preprocessor_file>>
main_globals == <<MODEL, PREPROCESSOR, MODEL_LOADED>>

----------------------------------------------------------------------------
(* Bounds *)

MaxRows == 2        \* rows in one predict request
MaxErrors == 2      \* cap of the prediction_errors counter
PortSpan == 4       \* how many ports from DefaultStartPort up can be free
MaxNumPorts == 3    \* largest explicit num_ports argument tried
MaxListed == 1      \* most models `ollama list` prints
MaxHostChanges == 1 \* cap of the host_epoch counter

----------------------------------------------------------------------------
(* Values *)

Variants == {"main", "main_intelligent", "main_simple"}

FileStates == {"absent", "unreadable", "ok"}

\* the exception-free and the raising ways a remote fetch can go
DvcStates == {"import_error", "model_error", "preprocessor_error", "ok"}

\* the ways constructing the fallback model can go
SklearnStates == {"ok", "import_error", "model_error", "preprocessor_error"}

\* Python's None
None == [cls |-> "NoneType", n_features |-> 0]

\* the synthetic training matrix is np.random.rand(100, 3)
SyntheticFeatures == 3

\* the readiness probe sends one row with feature1 and feature2
ReadyProbeWidth == 2

FeatureCounts == {ReadyProbeWidth, SyntheticFeatures}

\* a fitted object deserialized from an artifact written by the trainer
TrainedModel(f) == [cls |-> "RandomForestClassifier", n_features |-> f]

\* a fitted object deserialized from an artifact written by the data processor
FittedPreprocessor(f) == [cls |-> "ColumnTransformer", n_features |-> f]

IntelligentFallbackModel ==
    [cls |-> "IntelligentFallbackModel", n_features |-> SyntheticFeatures]

IntelligentPreprocessor ==
    [cls |-> "IntelligentPreprocessor", n_features |-> SyntheticFeatures]

\* Python truthiness of a model object: `not x` is true only for None
Truthy(x) == x # None

\* type(x).__name__
TypeName(x) == x.cls


----------------------------------------------------------------------------
(* Request payloads: row-oriented numeric matrices *)

RECURSIVE Sum(_)
Sum(row) == IF row = <<>> THEN 0 ELSE Head(row) + Sum(Tail(row))

\* the rows tried: width w, every feature 0 or every feature 1
Rows(w) == {[i \in 1..w |-> v] : v \in {0, 1}}

Matrices == UNION {[1..n -> Rows(w)] : n \in 0..MaxRows, w \in FeatureCounts}

\* the dummy data of the readiness probe of main_intelligent.py: the values
\* of pd.DataFrame([{'feature1': 1, 'feature2': 2}]) with pandas, [[1, 2]]
\* without
ReadyProbe(pandas) ==
    IF pandas THEN <<[i \in 1..ReadyProbeWidth |-> i]>> ELSE <<<<1, 2>>>>

\* transform(X) of a fitted preprocessor raises on an empty matrix and on a
\* matrix whose width is not the width it was fitted on
TransformRaises(p, data) ==
    \/ Len(data) = 0
    \/ \E i \in 1..Len(data) : Len(data[i]) # p.n_features

\* str(e) of the ValueError transform raises then
TransformError == "X does not have the number of features the transformer was fitted on"

\* transform(X): one scaled row per input row, in input order
Transform(p, data) == [i \in 1..Len(data) |-> [scaled_by |-> p.cls, row |-> data[i]]]

\* the class a fitted classifier gives one processed row; the synthetic
\* labels are (X.sum(axis=1) > 1.5)
PredictRow(m, x) == IF 2 * Sum(x.row) > 3 THEN 1 ELSE 0

\* mutant of Predict: the labels in reverse row order
PredictReversed(m, X) == [i \in 1..Len(X) |-> PredictRow(m, X[Len(X) + 1 - i])]

\* predict(X).tolist(): one label per processed row, in row order
Predict(m, X) == [i \in 1..Len(X) |-> PredictRow(m, X[i])]

----------------------------------------------------------------------------
(* IntelligentModelLoader, main_intelligent.py *)

\* __init__ before it calls load_models
NewLoader == [model |-> None, preprocessor |-> None, model_available |-> FALSE]

\* what _load_with_dvc runs into: the joblib guard comes first
DvcOutcome(joblib, remote) == IF ~joblib THEN "joblib_missing" ELSE remote

\* what _load_from_disk runs into: the joblib guard, the exists() test of
\* both paths, then joblib.load of the model, then of the preprocessor
DiskOutcome(joblib, mf, pf) ==
    IF ~joblib THEN "joblib_missing"
    ELSE IF mf = "absent" \/ pf = "absent" THEN "absent"
    ELSE IF mf = "unreadable" THEN "model_error"
    ELSE IF pf = "unreadable" THEN "preprocessor_error"
    ELSE "ok"

\* a strategy that loads artifacts assigns self.model, then
\* self.preprocessor, then self.model_available, and raises where it fails
load_artifacts(l, o, f) ==
    CASE o = "ok" ->
           [loader |-> [model |-> TrainedModel(f),
                        preprocessor |-> FittedPreprocessor(f),
                        model_available |-> TRUE],
            raised |-> FALSE]
      [] o = "preprocessor_error" ->
           [loader |-> [l EXCEPT !.model = TrainedModel(f)], raised |-> TRUE]
      [] OTHER -> [loader |-> l, raised |-> TRUE]

load_with_dvc(l, o, f) == load_artifacts(l, o, f)

load_from_disk(l, o, f) == load_artifacts(l, o, f)

\* _create_dummy_model installing the bare estimators instead of the
\* IntelligentFallbackModel / IntelligentPreprocessor wrappers
create_dummy_model_bare(l, o) ==
    CASE o = "ok" ->
           [loader |-> [model |-> TrainedModel(SyntheticFeatures),
                        preprocessor |-> FittedPreprocessor(SyntheticFeatures),
                        model_available |-> TRUE],
            raised |-> FALSE]
      [] o = "preprocessor_error" ->
           [loader |-> [l EXCEPT !.model = TrainedModel(SyntheticFeatures)],
            raised |-> TRUE]
      [] OTHER -> [loader |-> l, raised |-> TRUE]

\* _create_dummy_model: the sklearn and numpy imports, then
\* self.model = IntelligentFallbackModel(), then
\* self.preprocessor = IntelligentPreprocessor(), then model_available
create_dummy_model(l, o) ==
    CASE o = "ok" ->
           [loader |-> [model |-> IntelligentFallbackModel,
                        preprocessor |-> IntelligentPreprocessor,
                        model_available |-> TRUE],
            raised |-> FALSE]
      [] o = "preprocessor_error" ->
           [loader |-> [l EXCEPT !.model = IntelligentFallbackModel],
            raised |-> TRUE]
      [] OTHER -> [loader |-> l, raised |-> TRUE]

\* load_models without the nesting: the disk load follows the remote fetch
\* whether or not the fetch raised
load_models_next_unnested(strategy, raised) ==
    CASE strategy = "dvc" -> "load_from_disk"
      [] strategy = "disk" /\ ~raised -> "serving"
      [] strategy = "disk" /\ raised -> "create_dummy_model"
      [] strategy = "dummy" /\ ~raised -> "serving"
      [] strategy = "dummy" /\ raised -> "raised"

\* load_models without the inner try: a failing disk load propagates
load_models_next_no_inner_try(strategy, raised) ==
    CASE ~raised -> "serving"
      [] raised /\ strategy = "dvc" -> "load_from_disk"
      [] raised /\ strategy = "disk" -> "raised"
      [] raised /\ strategy = "dummy" -> "raised"

\* the try/except nesting of load_models: where control goes after a strategy
load_models_next(strategy, raised) ==
    CASE ~raised -> "serving"
      [] raised /\ strategy = "dvc" -> "load_from_disk"
      [] raised /\ strategy = "disk" -> "create_dummy_model"
      [] raised /\ strategy = "dummy" -> "raised"

Attempt(strategy, o, r) == [strategy |-> strategy, outcome |-> o, raised |-> r.raised]

LoadWithDvc ==
    /\ variant = "main_intelligent"
    /\ pc = "load_with_dvc"
    /\ LET o == DvcOutcome(JOBLIB_AVAILABLE, dvc)
           r == load_with_dvc(model_loader, o, artifact_features)
       IN /\ model_loader' = r.loader
          /\ attempted' = Append(attempted, Attempt("dvc", o, r))
          /\ pc' = load_models_next("dvc", r.raised)
    /\ UNCHANGED <<config_vars, variant, env, files, main_globals, prediction_errors,
                   response, invoked, request>>

LoadFromDisk ==
    /\ variant = "main_intelligent"
    /\ pc = "load_from_disk"
    /\ LET o == DiskOutcome(JOBLIB_AVAILABLE, model_file, preprocessor_file)
           r == load_from_disk(model_loader, o, artifact_features)
       IN /\ model_loader' = r.loader
          /\ attempted' = Append(attempted, Attempt("disk", o, r))
          /\ pc' = load_models_next("disk", r.raised)
    /\ UNCHANGED <<config_vars, variant, env, files, main_globals, prediction_errors,
                   response, invoked, request>>

CreateDummyModel ==
    /\ variant = "main_intelligent"
    /\ pc = "create_dummy_model"
    /\ LET r == create_dummy_model(model_loader, sklearn)
       IN /\ model_loader' = r.loader
          /\ attempted' = Append(attempted, Attempt("dummy", sklearn, r))
          /\ pc' = load_models_next("dummy", r.raised)
    /\ UNCHANGED <<config_vars, variant, env, files, main_globals, prediction_errors,
                   response, invoked, request>>


----------------------------------------------------------------------------
(* main.py: module-level model loading *)

\* the try block of main.py: the model is loaded when its file exists, then
\* the preprocessor when its file exists; a joblib.load that raises leaves
\* the block, keeping what was assigned before
startup_load(mf, pf, f) ==
    LET m == IF mf = "ok" THEN TrainedModel(f) ELSE None
        p == IF mf # "unreadable" /\ pf = "ok" THEN FittedPreprocessor(f) ELSE None
    IN [MODEL |-> m,
        PREPROCESSOR |-> p,
        MODEL_LOADED |-> (m # None /\ p # None)]

StartupLoad ==
    /\ variant = "main"
    /\ pc = "startup"
    /\ LET b == startup_load(model_file, preprocessor_file, artifact_features)
       IN /\ MODEL' = b.MODEL
          /\ PREPROCESSOR' = b.PREPROCESSOR
          /\ MODEL_LOADED' = b.MODEL_LOADED
    /\ pc' = "serving"
    /\ UNCHANGED <<config_vars, variant, env, files, model_loader, attempted,
                   prediction_errors, response, invoked, request>>

----------------------------------------------------------------------------
(* Responses *)

\* a response that carries no record of an agent task
NoRecord == [done |-> FALSE]

NoResponse ==
    [endpoint |-> "none", status_code |-> 0, status |-> "", prediction |-> <<>>,
     available |-> FALSE, type |-> "", detail |-> "", record |-> NoRecord]

Reply(endpoint, code, status) ==
    [endpoint |-> endpoint, status_code |-> code, status |-> status,
     prediction |-> <<>>, available |-> FALSE, type |-> "", detail |-> "",
     record |-> NoRecord]

Serving(v) == variant = v /\ pc = "serving"

\* a request without a JSON body
NoRequest == [kind |-> "none", data |-> <<>>]


----------------------------------------------------------------------------
(* main.py handlers *)

main_readiness_check ==
    /\ Serving("main")
    /\ request' = NoRequest
    /\ response' = IF ~MODEL_LOADED
                   THEN Reply("ready", 503, "error")
                   ELSE Reply("ready", 200, "ready")
    /\ invoked' = {}
    /\ UNCHANGED <<config_vars, variant, pc, env, files, model_loader, attempted,
                   main_globals, prediction_errors>>

main_predict(data) ==
    /\ Serving("main")
    /\ prediction_errors < MaxErrors
    /\ IF ~MODEL_LOADED
       THEN /\ response' = Reply("predict", 503, "error")
            /\ invoked' = {}
            /\ UNCHANGED prediction_errors
       ELSE IF TransformRaises(PREPROCESSOR, data)
       THEN /\ response' = [Reply("predict", 500, "error") EXCEPT
                              !.detail = TransformError]
            /\ invoked' = {"preprocessor"}
            /\ prediction_errors' = prediction_errors + 1
       ELSE /\ response' = [Reply("predict", 200, "ok") EXCEPT
                              !.prediction = Predict(MODEL, Transform(PREPROCESSOR, data))]
            /\ invoked' = {"preprocessor", "model"}
            /\ UNCHANGED prediction_errors
    /\ UNCHANGED <<config_vars, variant, pc, env, files, model_loader, attempted, main_globals>>

----------------------------------------------------------------------------
(* main_intelligent.py handlers (create_app) *)

intelligent_health_check ==
    /\ Serving("main_intelligent")
    /\ request' = NoRequest
    /\ response' = [Reply("health", 200,
                          IF model_loader.model_available THEN "ok" ELSE "degraded")
                    EXCEPT !.available = model_loader.model_available,
                           !.type = IF Truthy(model_loader.model)
                                    THEN TypeName(model_loader.model)
                                    ELSE "None"]
    /\ invoked' = {}
    /\ UNCHANGED <<config_vars, variant, pc, env, files, model_loader, attempted,
                   main_globals, prediction_errors>>

intelligent_readiness_check ==
    /\ Serving("main_intelligent")
    /\ request' = NoRequest
    /\ IF ~Truthy(model_loader.model) \/ ~Truthy(model_loader.preprocessor)
       THEN /\ response' = Reply("ready", 503, "not_ready")
            /\ invoked' = {}
       ELSE IF TransformRaises(model_loader.preprocessor, ReadyProbe(PANDAS_AVAILABLE))
       THEN /\ response' = Reply("ready", 503, "not_ready")
            /\ invoked' = {"preprocessor"}
       ELSE /\ response' = Reply("ready", 200, "ready")
            /\ invoked' = {"preprocessor", "model"}
    /\ UNCHANGED <<config_vars, variant, pc, env, files, model_loader, attempted,
                   main_globals, prediction_errors>>

intelligent_predict(data) ==
    /\ Serving("main_intelligent")
    /\ prediction_errors < MaxErrors
    /\ IF ~Truthy(model_loader.model) \/ ~Truthy(model_loader.preprocessor)
       THEN /\ response' = Reply("predict", 503, "error")
            /\ invoked' = {}
            /\ prediction_errors' = prediction_errors + 1
       ELSE IF TransformRaises(model_loader.preprocessor, data)
       THEN /\ response' = Reply("predict", 500, "error")
            /\ invoked' = {"preprocessor"}
            /\ prediction_errors' = prediction_errors + 1
       ELSE /\ response' = [Reply("predict", 200, "ok") EXCEPT
                              !.prediction = Predict(model_loader.model,
                                  Transform(model_loader.preprocessor, data))]
            /\ invoked' = {"preprocessor", "model"}
            /\ UNCHANGED prediction_errors
    /\ UNCHANGED <<config_vars, variant, pc, env, files, model_loader, attempted, main_globals>>

----------------------------------------------------------------------------
(* main_simple.py handlers *)

simple_health_check ==
    /\ Serving("main_simple")
    /\ request' = NoRequest
    /\ response' = Reply("health", 200, "ok")
    /\ invoked' = {}
    /\ UNCHANGED <<config_vars, variant, pc, env, files, model_loader, attempted,
                   main_globals, prediction_errors>>

simple_readiness_check ==
    /\ Serving("main_simple")
    /\ request' = NoRequest
    /\ response' = Reply("ready", 200, "ready")
    /\ invoked' = {}
    /\ UNCHANGED <<config_vars, variant, pc, env, files, model_loader, attempted,
                   main_globals, prediction_errors>>

\* predict loads the preprocessor, then the model, from disk on every
\* request; any exception is returned as {"error": ...} in a 200 response
simple_predict(data) ==
    /\ Serving("main_simple")
    /\ prediction_errors < MaxErrors
    /\ IF preprocessor_file # "ok" \/ model_file # "ok"
       THEN /\ response' = Reply("predict", 200, "error")
            /\ invoked' = {}
            /\ prediction_errors' = prediction_errors + 1
       ELSE IF TransformRaises(FittedPreprocessor(artifact_features), data)
       THEN /\ response' = Reply("predict", 200, "error")
            /\ invoked' = {"preprocessor"}
            /\ prediction_errors' = prediction_errors + 1
       ELSE /\ response' = [Reply("predict", 200, "ok") EXCEPT
                              !.prediction = Predict(TrainedModel(artifact_features),
                                  Transform(FittedPreprocessor(artifact_features), data))]
            /\ invoked' = {"preprocessor", "model"}
            /\ UNCHANGED prediction_errors
    /\ UNCHANGED <<config_vars, variant, pc, env, files, model_loader, attempted, main_globals>>

----------------------------------------------------------------------------
(* POST predict: the body is validated against PredictionInput, then handled *)

\* JSON bodies: {"data": <matrix of numbers>}, {"data": <matrix with a cell that
\* is no number>}, {"data": "invalid"}, and a body without a data field
Bodies ==
    {[kind |-> "matrix", data |-> m] : m \in Matrices}
    \cup {[kind |-> k, data |-> <<>>] : k \in {"words", "scalar", "missing"}}

\* class PredictionInput of main_intelligent.py and main_simple.py: data: list
PredictionInputList(body) == body.kind \in {"matrix", "words"}

\* mutant of PredictionInput: main.py validating as the other two modules do
PredictionInputAnyList(body) == PredictionInputList(body)

\* class PredictionInput of main.py: data: List[List[float]]
PredictionInput(body) == body.kind = "matrix"

\* the framework answers a body that does not validate, the handler is not called
Unprocessable(v, body) ==
    /\ Serving(v)
    /\ response' = Reply("predict", 422, "error")
    /\ invoked' = {}
    /\ UNCHANGED <<config_vars, variant, pc, env, files, model_loader, attempted,
                   main_globals, prediction_errors>>

main_post_predict(body) ==
    /\ request' = body
    /\ IF PredictionInput(body) THEN main_predict(body.data)
       ELSE Unprocessable("main", body)

intelligent_post_predict(body) ==
    /\ request' = body
    /\ IF PredictionInputList(body) THEN intelligent_predict(body.data)
       ELSE Unprocessable("main_intelligent", body)

simple_post_predict(body) ==
    /\ request' = body
    /\ IF PredictionInputList(body) THEN simple_predict(body.data)
       ELSE Unprocessable("main_simple", body)

\* the bodies sent to the handlers that take any list: the matrices of numbers
\* and the bodies that do not validate
ListBodies == {body \in Bodies : body.kind # "words"}

----------------------------------------------------------------------------
(* The artifact files: written by the training pipeline, removed by clean *)

\* train_model: joblib.dump(model, <models_dir>/<model_filename>)
train_model ==
    /\ model_file' = "ok"
    /\ UNCHANGED <<config_vars, variant, pc, env, preprocessor_file, model_loader, attempted,
                   main_globals, prediction_errors, response, invoked, request>>

\* process_data: joblib.dump(preprocessor, <models_dir>/<preprocessor_filename>)
process_data ==
    /\ preprocessor_file' = "ok"
    /\ UNCHANGED <<config_vars, variant, pc, env, model_file, model_loader, attempted,
                   main_globals, prediction_errors, response, invoked, request>>

\* omnitide clean: rm -rf ... models/ ...
clean ==
    /\ model_file' = "absent"
    /\ preprocessor_file' = "absent"
    /\ UNCHANGED <<config_vars, variant, pc, env, model_loader, attempted,
                   main_globals, prediction_errors, response, invoked, request>>

----------------------------------------------------------------------------
(* The host that IntelligentConfig probes *)

\* detect_environment probes these; detect_gpu_availability probes nvidia-smi
Tools == <<"git", "docker", "ollama", "dvc">>

GpuTool == "nvidia-smi"

Commands == {Tools[i] : i \in 1..Len(Tools)} \cup {GpuTool}

\* what subprocess.run([command, "--version"], check=True, timeout=5) does:
\* exit 0, CalledProcessError, FileNotFoundError, TimeoutExpired, or
\* PermissionError for a file on PATH that may not be executed
CommandStates == {"ok", "nonzero_exit", "not_found", "timeout", "permission_error"}

Packages == <<"fastapi", "pandas", "sklearn", "torch", "tensorflow">>

MonitoringPackage == "prometheus_client"

\* the packages heal_project holds critical, by the names it imports them under
critical_deps == <<"fastapi", "uvicorn", "pandas", "scikit-learn">>

Modules == {Packages[i] : i \in 1..Len(Packages)} \cup {MonitoringPackage, "uvicorn"}

\* what importlib.import_module(name) does: returns, raises ImportError, or
\* raises another exception out of the package's own import code
ModuleStates == {"ok", "missing", "broken"}

\* importlib.import_module(name): a name no package can be imported under
\* (scikit-learn is a distribution, its module is sklearn) is missing everywhere
import_module(modules, name) ==
    IF name \in DOMAIN modules THEN modules[name] ELSE "missing"

DefaultStartPort == 8000

DefaultNumPorts == 10

PortUniverse == DefaultStartPort..(DefaultStartPort + PortSpan - 1)

RequiredDirs == {"data/raw", "data/processed", "models", "reports", "logs"}

\* a host with nothing installed and every probed port taken
BareHost ==
    /\ host_tools = [c \in Commands |-> "not_found"]
    /\ host_modules = [m \in Modules |-> "missing"]
    /\ torch_cuda = FALSE
    /\ free_ports = {}
    /\ ollama_listed = [ok |-> FALSE, names |-> <<>>]
    /\ ollama_shown = {}
    /\ dirs = {}
    /\ host_epoch = 0

----------------------------------------------------------------------------
(* IntelligentConfig.get_available_ports *)

\* range(start_port, start_port + num_ports)
PortRange(start_port, num_ports) ==
    [i \in 1..(IF num_ports > 0 THEN num_ports ELSE 0) |-> start_port + i - 1]

\* the loop body: bind ('localhost', port); append on success, continue on OSError
RECURSIVE bind_each(_, _)
bind_each(free, ports) ==
    IF ports = <<>> THEN <<>>
    ELSE (IF Head(ports) \in free THEN <<Head(ports)>> ELSE <<>>)
         \o bind_each(free, Tail(ports))

\* mutant of get_available_ports: returns the list as found, empty or not
get_available_ports_no_default(free, start_port, num_ports) ==
    bind_each(free, PortRange(start_port, num_ports))

get_available_ports(free, start_port, num_ports) ==
    LET available_ports == bind_each(free, PortRange(start_port, num_ports))
    IN  IF available_ports # <<>> THEN available_ports ELSE <<start_port>>

\* mutant of close_sockets: the probing sockets stay bound
close_sockets_leaking(free, bound) == free \ {bound[i] : i \in 1..Len(bound)}

\* each probing socket is closed when its with block ends: the port is free again
close_sockets(free, bound) == free

NoPortsCall == [called |-> FALSE, start_port |-> 0, num_ports |-> 0,
                tried |-> <<>>, free |-> {}, result |-> <<>>]

\* a call of get_available_ports; every socket is closed again by its with block
GetAvailablePorts(start_port, num_ports) ==
    /\ ports_call' = [called |-> TRUE, start_port |-> start_port,
                      num_ports |-> num_ports,
                      tried |-> PortRange(start_port, num_ports),
                      free |-> free_ports,
                      result |-> get_available_ports(free_ports, start_port, num_ports)]
    /\ free_ports' = close_sockets(free_ports, ports_call'.result)
    /\ UNCHANGED <<host_tools, host_modules, torch_cuda, ollama_listed, ollama_shown,
                   dirs, host_epoch, available_modules, torch_imported, main_import, cfg_pc,
                   cfg, last_probe, last_call, call_repeated, serving_vars, project_vars>>

\* another process binds a free port
PortTaken ==
    \E p \in free_ports :
        /\ host_epoch < MaxHostChanges
        /\ free_ports' = free_ports \ {p}
        /\ host_epoch' = host_epoch + 1
        /\ UNCHANGED <<host_tools, host_modules, torch_cuda, ollama_listed,
                       ollama_shown, dirs, config_state, serving_vars, project_vars>>

\* another process closes its socket
PortReleased ==
    \E p \in PortUniverse \ free_ports :
        /\ host_epoch < MaxHostChanges
        /\ free_ports' = free_ports \cup {p}
        /\ host_epoch' = host_epoch + 1
        /\ UNCHANGED <<host_tools, host_modules, torch_cuda, ollama_listed,
                       ollama_shown, dirs, config_state, serving_vars, project_vars>>

----------------------------------------------------------------------------
(* IntelligentConfig: the capability checks *)

\* the exceptions check_command_availability and detect_gpu_availability catch:
\* CalledProcessError, FileNotFoundError, TimeoutExpired
CaughtBySubprocessExcept == {"nonzero_exit", "not_found", "timeout"}

\* mutant of check_command_availability: no except clause at all
check_command_availability_uncaught(tools, command) ==
    [raised |-> tools[command] # "ok", value |-> tools[command] = "ok"]

\* subprocess.run([command, "--version"], check=True, timeout=5): True when it
\* returns, False for the three exceptions caught; any other exception leaves
check_command_availability(tools, command) ==
    [raised |-> tools[command] \notin CaughtBySubprocessExcept \cup {"ok"},
     value |-> tools[command] = "ok"]

\* the cached answer when there is one; else import_module, caching True, or
\* False on ImportError; any other exception leaves, nothing cached
check_module_availability(cache, modules, module_name) ==
    IF module_name \in DOMAIN cache
    THEN [raised |-> FALSE, value |-> cache[module_name], cache |-> cache]
    ELSE [raised |-> import_module(modules, module_name) = "broken",
          value |-> import_module(modules, module_name) = "ok",
          cache |-> IF import_module(modules, module_name) = "broken" THEN cache
                    ELSE [m \in DOMAIN cache \cup {module_name} |->
                             IF m = module_name
                             THEN import_module(modules, module_name) = "ok"
                             ELSE cache[m]]]

\* check_torch_cuda: bound at import to the torch found then, or to return False
check_torch_cuda(torch, cuda) == torch /\ cuda

\* nvidia-smi first, then torch's CUDA flag
detect_gpu_availability(tools, torch, cuda) ==
    [raised |-> tools[GpuTool] \notin CaughtBySubprocessExcept \cup {"ok"},
     value |-> IF tools[GpuTool] = "ok" THEN TRUE ELSE check_torch_cuda(torch, cuda)]

\* the loop over packages: [raised, has, cache] after names[1..Len(names)]
RECURSIVE check_packages(_, _, _)
check_packages(cache, modules, names) ==
    IF names = <<>>
    THEN [raised |-> FALSE, has |-> [m \in {} |-> TRUE], cache |-> cache]
    ELSE LET first == check_module_availability(cache, modules, Head(names))
             rest == check_packages(first.cache, modules, Tail(names))
         IN  IF first.raised
             THEN [raised |-> TRUE, has |-> [m \in {} |-> TRUE], cache |-> cache]
             ELSE [raised |-> rest.raised,
                   has |-> [m \in DOMAIN rest.has \cup {Head(names)} |->
                               IF m = Head(names) THEN first.value ELSE rest.has[m]],
                   cache |-> rest.cache]

\* os.getenv("ENVIRONMENT", "development") == "development"
dev_mode == TRUE

NoEnvInfo == [has_gpu |-> FALSE, available_ports |-> <<>>, dev_mode |-> FALSE,
              has |-> [m \in {} |-> TRUE]]

\* str(e) of the exceptions that leave the checks: running a file that may not
\* be executed, and whatever a package's own import code raises
PermissionDenied == "[Errno 13] Permission denied"

ImportFailure == "error raised by the package on import"

\* detect_environment: has_gpu, available_ports, dev_mode, has_<tool> for each
\* tool, has_<package> for each package, probed in this order
detect_environment(tools, modules, cache, torch, cuda, free) ==
    LET gpu == detect_gpu_availability(tools, torch, cuda)
        available_ports == get_available_ports(free, DefaultStartPort, DefaultNumPorts)
        tool_raised == \E i \in 1..Len(Tools) :
                           check_command_availability(tools, Tools[i]).raised
        packages == check_packages(cache, modules, Packages)
        raised == gpu.raised \/ tool_raised \/ packages.raised
    IN  [raised |-> raised,
         error |-> IF gpu.raised \/ tool_raised THEN PermissionDenied
                   ELSE IF packages.raised THEN ImportFailure ELSE "",
         cache |-> IF gpu.raised \/ tool_raised THEN cache ELSE packages.cache,
         env_info |->
             IF raised THEN NoEnvInfo
             ELSE [has_gpu |-> gpu.value,
                   available_ports |-> available_ports,
                   dev_mode |-> dev_mode,
                   has |-> [n \in {Tools[i] : i \in 1..Len(Tools)} \cup DOMAIN packages.has |->
                               IF n \in DOMAIN packages.has THEN packages.has[n]
                               ELSE check_command_availability(tools, n).value]]]

----------------------------------------------------------------------------
(* IntelligentConfig: the sections of the configuration *)

fallback_models == <<"phi3:mini", "llama3.2:3b", "llama3.1:8b", "mistral:7b">>

\* the model names `ollama list` can print: the preferred ones and another
OllamaModels == {fallback_models[i] : i \in 1..Len(fallback_models)} \cup {"codellama:7b"}

\* the loop over fallback_models: the first `ollama show` exits 0 for, else phi3:mini
RECURSIVE first_shown(_, _)
first_shown(shown, models) ==
    IF models = <<>> THEN "phi3:mini"
    ELSE IF Head(models) \in shown THEN Head(models)
    ELSE first_shown(shown, Tail(models))

\* mutant of detect_available_ollama_model: the preference list alone decides
detect_available_ollama_model_by_preference(listed, shown) ==
    first_shown(shown, fallback_models)

\* the first model `ollama list` prints below its header line when it exits 0
\* and prints one; else the walk over fallback_models
detect_available_ollama_model(listed, shown) ==
    IF listed.ok /\ listed.names # <<>>
    THEN listed.names[1]
    ELSE first_shown(shown, fallback_models)

get_llm_config(tools, listed, shown) ==
    LET has_ollama == check_command_availability(tools, "ollama")
    IN  [raised |-> has_ollama.raised,
         value |-> IF has_ollama.value
                   THEN [enabled |-> TRUE, provider |-> "ollama",
                         model |-> detect_available_ollama_model(listed, shown),
                         api_base |-> "http://localhost:11434"]
                   ELSE [enabled |-> FALSE, provider |-> "none",
                         model |-> "phi3:mini",
                         api_base |-> "http://localhost:11434",
                         fallback_message |->
                             "LLM features disabled - Ollama not available"]]

get_model_config(tools, torch, cuda) ==
    LET has_gpu == detect_gpu_availability(tools, torch, cuda)
    IN  [raised |-> has_gpu.raised,
         value |-> [type |-> "sklearn_ensemble",
                    algorithm |-> "RandomForestClassifier",
                    n_jobs |-> IF ~has_gpu.value THEN -1 ELSE 1,
                    use_gpu |-> has_gpu.value,
                    model_path |-> "models/model.joblib"]]

get_monitoring_config(cache, modules) ==
    LET has_prometheus == check_module_availability(cache, modules, MonitoringPackage)
    IN  [raised |-> has_prometheus.raised,
         cache |-> has_prometheus.cache,
         value |-> [metrics_enabled |-> has_prometheus.value,
                    logging_level |-> "INFO"]]

get_data_config ==
    [raw_data |-> "data/raw", processed_data |-> "data/processed"]

\* the directories get_dynamic_paths makes: every path but base and config_file
PathDirs == {"data", "models", "reports", "logs"}

get_dynamic_paths ==
    [base |-> ".", data_dir |-> "data", models_dir |-> "models",
     reports_dir |-> "reports", logs_dir |-> "logs", config_file |-> "config.yaml"]

\* mutant of make_path_dirs: the tree is removed and made anew
make_path_dirs_anew(existing) == PathDirs

\* Path(path).mkdir(exist_ok=True) for each of PathDirs
make_path_dirs(existing) == existing \cup PathDirs

NoSection == [k \in {} |-> TRUE]

NoConfig == [k \in {} |-> TRUE]

\* the dict get_dynamic_config returns
ConfigTree(env_info, paths, models, llm, monitoring) ==
    [project |-> [name |-> "omnitide-ai-suite", version |-> "1.0.0",
                  description |-> "Dynamic MLOps & LLM Platform"],
     api |-> [host |-> "0.0.0.0", port |-> env_info.available_ports[1],
              reload |-> env_info.dev_mode],
     paths |-> paths,
     data |-> get_data_config,
     models |-> models,
     llm |-> llm,
     monitoring |-> monitoring,
     environment |-> env_info]

----------------------------------------------------------------------------
(* IntelligentConfig: detect_environment and get_dynamic_config as calls *)

NoProbe == [done |-> FALSE, raised |-> FALSE, error |-> "", env_info |-> NoEnvInfo,
            epoch |-> 0]

NoCall == [done |-> FALSE, raised |-> FALSE, config |-> NoConfig,
           epoch_begin |-> 0, epoch_end |-> 0]

NoCfg == [epoch_begin |-> 0, environment |-> NoEnvInfo, paths |-> NoSection,
          models |-> NoSection, llm |-> NoSection]

\* what one run of detect_environment leaves behind
Probed(d) ==
    /\ last_probe' = [done |-> TRUE, raised |-> d.raised, error |-> d.error,
                      env_info |-> d.env_info, epoch |-> host_epoch]
    /\ available_modules' = d.cache
    /\ free_ports' =
           IF detect_gpu_availability(host_tools, torch_imported, torch_cuda).raised
           THEN free_ports
           ELSE close_sockets(free_ports,
                              get_available_ports(free_ports, DefaultStartPort,
                                                  DefaultNumPorts))
    /\ UNCHANGED ports_call

\* get_dynamic_config returns config, or an exception leaves it
Returned(raised, config, epoch_begin) ==
    /\ last_call' = [done |-> TRUE, raised |-> raised,
                     config |-> IF raised THEN NoConfig ELSE config,
                     epoch_begin |-> epoch_begin, epoch_end |-> host_epoch]
    /\ call_repeated' = (last_call.done /\ last_call.epoch_begin = host_epoch)
    /\ cfg' = NoCfg
    /\ cfg_pc' = "idle"

\* a call of detect_environment on its own (detect_env, the agent's detect task)
DetectEnvironment ==
    /\ cfg_pc = "idle"
    /\ Probed(detect_environment(host_tools, host_modules, available_modules,
                                 torch_imported, torch_cuda, free_ports))
    /\ UNCHANGED <<host_tools, host_modules, torch_cuda, ollama_listed, ollama_shown,
                   dirs, host_epoch, torch_imported, main_import, cfg_pc, cfg, last_call,
                   call_repeated, serving_vars, project_vars>>

\* get_dynamic_config, line 80 and the api section: env_info = detect_environment(),
\* port = env_info.get("available_ports", [8000])[0]
ConfigDetect ==
    /\ cfg_pc = "idle"
    /\ LET d == detect_environment(host_tools, host_modules, available_modules,
                                   torch_imported, torch_cuda, free_ports)
       IN  /\ Probed(d)
           /\ IF d.raised \/ d.env_info.available_ports = <<>>
              THEN Returned(TRUE, NoConfig, host_epoch)
              ELSE /\ cfg' = [NoCfg EXCEPT !.epoch_begin = host_epoch,
                                           !.environment = d.env_info]
                   /\ cfg_pc' = "paths"
                   /\ UNCHANGED <<last_call, call_repeated>>
    /\ UNCHANGED <<host_tools, host_modules, torch_cuda, ollama_listed, ollama_shown,
                   dirs, host_epoch, torch_imported, main_import, serving_vars, project_vars>>

\* "paths": self.get_dynamic_paths()
ConfigPaths ==
    /\ cfg_pc = "paths"
    /\ dirs' = make_path_dirs(dirs)
    /\ cfg' = [cfg EXCEPT !.paths = get_dynamic_paths]
    /\ cfg_pc' = "models"
    /\ UNCHANGED <<host_tools, host_modules, torch_cuda, free_ports, ollama_listed,
                   ollama_shown, host_epoch, available_modules, ports_call,
                   torch_imported, main_import, last_probe, last_call, call_repeated, serving_vars, project_vars>>

\* "models": self.get_model_config()
ConfigModels ==
    /\ cfg_pc = "models"
    /\ LET models == get_model_config(host_tools, torch_imported, torch_cuda)
       IN  IF models.raised
           THEN Returned(TRUE, NoConfig, cfg.epoch_begin)
           ELSE /\ cfg' = [cfg EXCEPT !.models = models.value]
                /\ cfg_pc' = "llm"
                /\ UNCHANGED <<last_call, call_repeated>>
    /\ UNCHANGED <<host, available_modules, ports_call, torch_imported, main_import, last_probe,
                   serving_vars, project_vars>>

\* "llm": self.get_llm_config()
ConfigLlm ==
    /\ cfg_pc = "llm"
    /\ LET llm == get_llm_config(host_tools, ollama_listed, ollama_shown)
       IN  IF llm.raised
           THEN Returned(TRUE, NoConfig, cfg.epoch_begin)
           ELSE /\ cfg' = [cfg EXCEPT !.llm = llm.value]
                /\ cfg_pc' = "monitoring"
                /\ UNCHANGED <<last_call, call_repeated>>
    /\ UNCHANGED <<host, available_modules, ports_call, torch_imported, main_import, last_probe,
                   serving_vars, project_vars>>

\* "monitoring": self.get_monitoring_config(), "environment": env_info; return config
ConfigMonitoring ==
    /\ cfg_pc = "monitoring"
    /\ LET monitoring == get_monitoring_config(available_modules, host_modules)
       IN  /\ available_modules' = monitoring.cache
           /\ Returned(monitoring.raised,
                       ConfigTree(cfg.environment, cfg.paths, cfg.models, cfg.llm,
                                  monitoring.value),
                       cfg.epoch_begin)
    /\ UNCHANGED <<host, ports_call, torch_imported, main_import, last_probe, serving_vars, project_vars>>

----------------------------------------------------------------------------
(* IntelligentConfig.get_dynamic_config as one call *)

\* get_dynamic_config run from its first line to its return with nothing else
\* happening on the host: the environment, the directories of the paths
\* section, then the models, llm and monitoring sections
get_dynamic_config(tools, modules, cache, torch, cuda, free, listed, shown, existing) ==
    LET d == detect_environment(tools, modules, cache, torch, cuda, free)
        models == get_model_config(tools, torch, cuda)
        llm == get_llm_config(tools, listed, shown)
        monitoring == get_monitoring_config(d.cache, modules)
        raised == d.raised \/ models.raised \/ llm.raised \/ monitoring.raised
    IN  [raised |-> raised,
         detected |-> ~d.raised,
         error |-> IF d.raised THEN d.error
                   ELSE IF models.raised \/ llm.raised THEN PermissionDenied
                   ELSE IF monitoring.raised THEN ImportFailure ELSE "",
         cache |-> IF d.raised \/ models.raised \/ llm.raised THEN d.cache
                   ELSE monitoring.cache,
         dirs |-> IF d.raised THEN existing ELSE make_path_dirs(existing),
         environment |-> d.env_info,
         config |-> IF raised THEN NoConfig
                    ELSE ConfigTree(d.env_info, get_dynamic_paths, models.value,
                                    llm.value, monitoring.value)]

----------------------------------------------------------------------------
(* The sample data file *)

NoDataFile == [header |-> <<>>, by |-> "nobody"]

\* src/config.py: config['data']['expected_columns']
expected_columns == <<"feature1", "feature2", "feature3", "target">>

\* the columns IntelligentConfig.create_sample_data writes, with pandas and without
sample_columns == <<"feature_1", "feature_2", "feature_3", "target">>

\* the header a user's own data file has: the expected columns and one more
UserColumns == expected_columns \o <<"comment">>

SeqOf(s) == {s[i] : i \in 1..Len(s)}

\* validate_data: ValueError unless every expected column is a column of df
validate_data(columns) ==
    [raised |-> ~(SeqOf(expected_columns) \subseteq SeqOf(columns))]

\* mkdir(parents=True, exist_ok=True) of data/raw makes data as well
data_raw_dirs == {"data", "data/raw"}

\* IntelligentConfig.create_sample_data: import pandas first (ImportError takes
\* the branch without pandas, another exception leaves), then the directory,
\* then data/raw/data.csv is written over
create_sample_data(modules, existing, file) ==
    IF import_module(modules, "pandas") = "broken"
    THEN [raised |-> TRUE, dirs |-> existing, data_file |-> file]
    ELSE [raised |-> FALSE, dirs |-> existing \cup data_raw_dirs,
          data_file |-> [header |-> sample_columns, by |-> "IntelligentConfig"]]

\* data_processor.create_sample_data: os.makedirs and a file written by hand
data_processor_create_sample_data(existing) ==
    [dirs |-> existing \cup data_raw_dirs,
     data_file |-> [header |-> expected_columns, by |-> "data_processor"]]

----------------------------------------------------------------------------
(* IntelligentConfig.heal_project *)

required_dirs == <<"data/raw", "data/processed", "models", "reports", "logs">>

\* the directories heal_project and get_dynamic_paths make
ProjectDirs == SeqOf(required_dirs) \cup PathDirs

\* an entry of the action list: the text before the colon, the name after it
Entry(text, about) == [text |-> text, about |-> about]

\* the directories mkdir(parents=True) makes above dir_path
parents(dir_path) ==
    IF dir_path \in {"data/raw", "data/processed"} THEN {"data"} ELSE {}

\* mutant of create_missing_dirs: the directories are made and none is reported
create_missing_dirs_unreported(existing, paths) ==
    [dirs |-> existing \cup {"data"} \cup {paths[i] : i \in 1..Len(paths)},
     actions |-> <<>>]

\* the loop over required_dirs: if not full_path.exists(): mkdir, append
RECURSIVE create_missing_dirs(_, _)
create_missing_dirs(existing, paths) ==
    IF paths = <<>> THEN [dirs |-> existing, actions |-> <<>>]
    ELSE LET missing == Head(paths) \notin existing
             made == IF missing
                     THEN existing \cup parents(Head(paths)) \cup {Head(paths)}
                     ELSE existing
             rest == create_missing_dirs(made, Tail(paths))
         IN  [dirs |-> rest.dirs,
              actions |-> (IF missing
                           THEN <<Entry("Created directory", Head(paths))>>
                           ELSE <<>>) \o rest.actions]

\* the module a distribution installs
installed_module(dep) == IF dep = "scikit-learn" THEN "sklearn" ELSE dep

\* subprocess.run([sys.executable, "-m", "pip", "install"] + deps, check=True):
\* the missing ones of deps are installed, or CalledProcessError
pip_install(modules, deps, works) ==
    [raised |-> ~works,
     modules |-> IF ~works THEN modules
                 ELSE [m \in DOMAIN modules |->
                          IF modules[m] = "missing"
                             /\ m \in {installed_module(dep) : dep \in SeqOf(deps)}
                          THEN "ok" ELSE modules[m]]]

\* mutant of sample_needed: the sample file is written whether it exists or not
sample_needed_always(file) == TRUE

\* if not data_file.exists()
sample_needed(file) == file.header = <<>>

\* mutant of validate_configuration: a failed synthesis is not reported
validate_configuration_silent(config) ==
    IF config.raised THEN <<>>
    ELSE <<Entry("Configuration validated successfully", "")>>

\* try: config = self.get_dynamic_config() ... except Exception as e: ...
validate_configuration(config) ==
    IF config.raised
    THEN <<Entry("Configuration validation failed", config.error)>>
    ELSE <<Entry("Configuration validated successfully", "")>>

\* heal_project did not come to call get_dynamic_config
NotValidated == [reached |-> FALSE]

\* what heal_project leaves: raised with nothing returned, or the action list
Healed(raised, error, actions, existing, file, cache, modules, validation) ==
    [raised |-> raised, error |-> error, actions |-> IF raised THEN <<>> ELSE actions,
     dirs |-> existing, data_file |-> file, cache |-> cache, modules |-> modules,
     validation |-> validation]

heal_project(tools, modules, cache, torch, cuda, free, listed, shown, existing, file, works) ==
    LET made == create_missing_dirs(existing, required_dirs)
        deps == check_packages(cache, modules, critical_deps)
    IN  IF deps.raised
        THEN Healed(TRUE, ImportFailure, <<>>, made.dirs, file, deps.cache, modules,
                    NotValidated)
        ELSE
    LET missing_deps == SelectSeq(critical_deps, LAMBDA dep : ~deps.has[dep])
        install == IF missing_deps # <<>> THEN pip_install(modules, missing_deps, works)
                   ELSE [raised |-> FALSE, modules |-> modules]
        installed == IF missing_deps = <<>> THEN <<>>
                     ELSE IF install.raised
                     THEN <<Entry("Failed to install dependencies", "")>>
                     ELSE <<Entry("Installed missing dependencies", "")>>
        sample == IF sample_needed(file)
                  THEN create_sample_data(install.modules, made.dirs, file)
                  ELSE [raised |-> FALSE, dirs |-> made.dirs, data_file |-> file]
    IN  IF sample.raised
        THEN Healed(TRUE, ImportFailure, <<>>, made.dirs, file, deps.cache,
                    install.modules, NotValidated)
        ELSE
    LET sampled == IF sample_needed(file)
                   THEN <<Entry("Created sample data file", "")>> ELSE <<>>
        config == get_dynamic_config(tools, install.modules, deps.cache, torch, cuda,
                                     free, listed, shown, sample.dirs)
    IN  Healed(FALSE, "",
               made.actions \o installed \o sampled \o validate_configuration(config),
               config.dirs, sample.data_file, config.cache, install.modules,
               [reached |-> TRUE, config |-> config])

NoHeal == [done |-> FALSE, raised |-> FALSE, error |-> "", actions |-> <<>>,
           dirs_before |-> {}, file_before |-> NoDataFile, dirs |-> {},
           data_file |-> NoDataFile, validation |-> "not reached", epoch |-> 0,
           repeated |-> FALSE]

\* what a get_dynamic_config call run in one piece leaves behind
ConfigCalled(c) ==
    /\ last_probe' = [done |-> TRUE, raised |-> ~c.detected,
                      error |-> IF c.detected THEN "" ELSE c.error,
                      env_info |-> c.environment, epoch |-> host_epoch]
    /\ Returned(c.raised, c.config, host_epoch)

\* what heal_project does not touch
heal_frame == <<host_tools, torch_cuda, free_ports, ollama_listed, ollama_shown,
                host_epoch, ports_call, torch_imported, main_import, pip_works>>

\* a call of heal_project and what it leaves on the host and in the process;
\* repeated: the call before it returned and nothing outside changed since
Heals ==
    \E h \in {heal_project(host_tools, host_modules, available_modules, torch_imported,
                           torch_cuda, free_ports, ollama_listed, ollama_shown, dirs,
                           data_file, pip_works)} :
        /\ cfg_pc = "idle"
        /\ heal_call' = [done |-> TRUE, raised |-> h.raised, error |-> h.error,
                         actions |-> h.actions, dirs_before |-> dirs,
                         file_before |-> data_file, dirs |-> h.dirs,
                         data_file |-> h.data_file,
                         validation |-> IF ~h.validation.reached THEN "not reached"
                                        ELSE IF h.validation.config.raised THEN "raised"
                                        ELSE "returned",
                         epoch |-> host_epoch,
                         repeated |-> heal_call.done /\ ~heal_call.raised
                                      /\ heal_call.epoch = host_epoch]
        /\ dirs' = h.dirs
        /\ data_file' = h.data_file
        /\ available_modules' = h.cache
        /\ host_modules' = h.modules
        /\ IF h.validation.reached
           THEN ConfigCalled(h.validation.config)
           ELSE UNCHANGED <<last_probe, last_call, call_repeated, cfg, cfg_pc>>
        /\ UNCHANGED heal_frame

\* the module-level heal_project(): intelligent_config.heal_project()
HealProject ==
    /\ Heals
    /\ UNCHANGED <<task_call, deploy_call, serving_vars>>

\* IntelligentConfig.create_sample_data called on its own, as process_data
\* calls it when the data file is missing
CreateSampleData ==
    /\ data_file = NoDataFile
    /\ LET c == create_sample_data(host_modules, dirs, data_file)
       IN  /\ dirs' = c.dirs
           /\ data_file' = c.data_file
    /\ UNCHANGED <<host_tools, host_modules, torch_cuda, free_ports, ollama_listed,
                   ollama_shown, host_epoch, config_state, pip_works, heal_call,
                   task_call, deploy_call, serving_vars>>

\* data_processor.create_sample_data()
DataProcessorCreateSampleData ==
    /\ LET c == data_processor_create_sample_data(dirs)
       IN  /\ dirs' = c.dirs
           /\ data_file' = c.data_file
    /\ UNCHANGED <<host_tools, host_modules, torch_cuda, free_ports, ollama_listed,
                   ollama_shown, host_epoch, config_state, pip_works, heal_call,
                   task_call, deploy_call, serving_vars>>

\* someone removes a directory of the project with all that is below it
DirRemoved ==
    \E d \in dirs :
        /\ host_epoch < MaxHostChanges
        /\ dirs' = IF d = "data" THEN dirs \ {"data", "data/raw", "data/processed"}
                   ELSE dirs \ {d}
        /\ data_file' = IF d \in data_raw_dirs THEN NoDataFile ELSE data_file
        /\ host_epoch' = host_epoch + 1
        /\ UNCHANGED <<host_tools, host_modules, torch_cuda, free_ports, ollama_listed,
                       ollama_shown, config_state, pip_works, heal_call, task_call,
                       deploy_call, serving_vars>>

\* someone removes data/raw/data.csv
DataFileRemoved ==
    /\ data_file # NoDataFile
    /\ host_epoch < MaxHostChanges
    /\ data_file' = NoDataFile
    /\ host_epoch' = host_epoch + 1
    /\ UNCHANGED <<host_tools, host_modules, torch_cuda, free_ports, ollama_listed,
                   ollama_shown, dirs, config_state, pip_works, heal_call, task_call,
                   deploy_call, serving_vars>>

----------------------------------------------------------------------------
(* IntelligentConfig.orchestrate_agent_task *)

TaskNames == {"heal", "detect", "adapt", "install_deps", "restart", ""}

\* params: None, {} or {"dependencies": [...]}
NoParams == [given |-> FALSE, dependencies |-> <<>>]

Params == {NoParams} \cup
          {[given |-> TRUE, dependencies |-> d] : d \in {<<>>, <<"pandas">>}}

NoTask == [done |-> FALSE, task_name |-> "", success |-> FALSE, error |-> "",
           message |-> "", actions |-> <<>>, environment |-> NoEnvInfo,
           config |-> NoConfig]

\* {"success": True, "result": ...}
Succeeded(task_name) == [NoTask EXCEPT !.done = TRUE, !.task_name = task_name,
                                       !.success = TRUE]

\* {"success": False, "error": ...}
Failed(task_name, error) == [NoTask EXCEPT !.done = TRUE, !.task_name = task_name,
                                           !.error = error]

\* if params is None: params = {}; then params.get("dependencies", [])
missing_deps_of(params) == IF params.given THEN params.dependencies ELSE <<>>

\* one call of orchestrate_agent_task: the branch of the task name inside
\* try ... except Exception
orchestrate_agent_task(task_name, params) ==
    /\ cfg_pc = "idle"
    /\ CASE task_name = "heal" ->
             /\ Heals
             /\ task_call' = IF heal_call'.raised
                             THEN Failed(task_name, heal_call'.error)
                             ELSE [Succeeded(task_name) EXCEPT
                                       !.actions = heal_call'.actions]
         [] task_name = "detect" ->
             \E d \in {detect_environment(host_tools, host_modules, available_modules,
                                          torch_imported, torch_cuda, free_ports)} :
                 /\ Probed(d)
                 /\ task_call' = IF d.raised THEN Failed(task_name, d.error)
                                 ELSE [Succeeded(task_name) EXCEPT
                                           !.environment = d.env_info]
                 /\ UNCHANGED <<host_tools, host_modules, torch_cuda, ollama_listed,
                                ollama_shown, dirs, host_epoch, torch_imported,
                                main_import, cfg_pc, cfg, last_call, call_repeated,
                                data_file, pip_works, heal_call>>
         [] task_name = "adapt" ->
             \E c \in {get_dynamic_config(host_tools, host_modules, available_modules,
                                          torch_imported, torch_cuda, free_ports,
                                          ollama_listed, ollama_shown, dirs)} :
                 /\ ConfigCalled(c)
                 /\ available_modules' = c.cache
                 /\ dirs' = c.dirs
                 /\ task_call' = IF c.raised THEN Failed(task_name, c.error)
                                 ELSE [Succeeded(task_name) EXCEPT !.config = c.config]
                 /\ UNCHANGED <<heal_frame, host_modules, data_file, heal_call>>
         [] task_name = "install_deps" ->
             LET missing_deps == missing_deps_of(params)
                 install == pip_install(host_modules, missing_deps, pip_works)
             IN  /\ host_modules' = IF missing_deps # <<>>
                                    THEN install.modules ELSE host_modules
                 /\ task_call' =
                        IF missing_deps = <<>>
                        THEN [Succeeded(task_name) EXCEPT
                                  !.message = "No dependencies to install"]
                        ELSE IF install.raised
                        THEN Failed(task_name, "Installation failed")
                        ELSE [Succeeded(task_name) EXCEPT !.message = "Installed"]
                 /\ UNCHANGED <<heal_frame, dirs, data_file, available_modules,
                                last_probe, last_call, call_repeated, cfg, cfg_pc,
                                heal_call>>
         [] OTHER ->
             /\ task_call' = Failed(task_name, "Unknown task")
             /\ UNCHANGED <<host, config_state, data_file, pip_works, heal_call>>

\* orchestrate_agent_task called on the global intelligent_config
OrchestrateAgentTask ==
    \E task_name \in TaskNames, params \in Params :
        /\ orchestrate_agent_task(task_name, params)
        /\ UNCHANGED <<deploy_call, serving_vars>>

----------------------------------------------------------------------------
(* main.py: the handlers that call IntelligentConfig *)

\* what these handlers leave alone in the serving process
handler_frame == <<variant, pc, env, files, model_loader, attempted, main_globals,
                   prediction_errors>>

\* mutant of global_exception_handler: a 500 that does not tell the exception
global_exception_handler_opaque(endpoint, exc) == Reply(endpoint, 500, "error")

\* @app.exception_handler(Exception): 500, detail "An internal server error
\* occurred: {exc}"
global_exception_handler(endpoint, exc) ==
    [Reply(endpoint, 500, "error") EXCEPT !.detail = exc]

\* GET health: detect_environment() is called for the answer
main_health_check ==
    /\ Serving("main")
    /\ cfg_pc = "idle"
    /\ request' = NoRequest
    /\ \E d \in {detect_environment(host_tools, host_modules, available_modules,
                                     torch_imported, torch_cuda, free_ports)} :
           /\ Probed(d)
           /\ response' = IF d.raised THEN global_exception_handler("health", d.error)
                          ELSE Reply("health", 200, "ok")
    /\ invoked' = {}
    /\ UNCHANGED <<host_tools, host_modules, torch_cuda, ollama_listed, ollama_shown,
                   dirs, host_epoch, torch_imported, main_import, cfg_pc, cfg, last_call,
                   call_repeated, project_vars, handler_frame>>

\* a heal that also runs the startup load again
trigger_healing_reloads ==
    /\ Serving("main")
    /\ request' = NoRequest
    /\ Heals
    /\ response' = IF heal_call'.raised
                   THEN global_exception_handler("heal", heal_call'.error)
                   ELSE Reply("heal", 200, "actions")
    /\ invoked' = {}
    /\ LET b == startup_load(model_file, preprocessor_file, artifact_features)
       IN /\ MODEL' = b.MODEL
          /\ PREPROCESSOR' = b.PREPROCESSOR
          /\ MODEL_LOADED' = b.MODEL_LOADED
    /\ UNCHANGED <<task_call, deploy_call, variant, pc, env, files, model_loader,
                   attempted, prediction_errors>>

\* POST heal: heal_project works on the project directories, the
\* dependencies and data/raw/data.csv; the handler returns its action list
trigger_healing ==
    /\ Serving("main")
    /\ request' = NoRequest
    /\ Heals
    /\ response' = IF heal_call'.raised
                   THEN global_exception_handler("heal", heal_call'.error)
                   ELSE Reply("heal", 200, "actions")
    /\ invoked' = {}
    /\ UNCHANGED <<task_call, deploy_call, handler_frame>>

\* the bodies of POST agent/execute that validate as AgentTask
AgentTasks == {[task_name |-> n, parameters |-> p] : n \in TaskNames, p \in Params}

\* mutant of agent_status_code: the record is returned whatever it says
agent_status_code_always_ok(result) == 200

\* if not result.get("success"): raise HTTPException(status_code=400, detail=result)
agent_status_code(result) == IF ~result.success THEN 400 ELSE 200

\* POST agent/execute
execute_agent_task(task) ==
    /\ Serving("main")
    /\ request' = NoRequest
    /\ orchestrate_agent_task(task.task_name, task.parameters)
    /\ response' = [Reply("agent", agent_status_code(task_call'),
                          IF agent_status_code(task_call') = 200 THEN "ok" ELSE "error")
                    EXCEPT !.record = task_call']
    /\ invoked' = {}
    /\ UNCHANGED <<deploy_call, handler_frame>>

----------------------------------------------------------------------------
(* Deployer *)

\* no Deployer constructed, no deploy called
NoDeploy == [constructed |-> FALSE, config_port |-> 0, done |-> FALSE, target |-> "",
             raised |-> FALSE, error |-> "", healed |-> FALSE, commands |-> <<>>]

Targets == {"docker", "local", "k8s", "swarm"}

\* the port argument of deploy: None, or a port of the caller's choosing
NoPort == 0

DeployPorts == {NoPort, DefaultStartPort + 1}

\* the return codes a command that runs can exit with
ExitCodes == {0, 1}

\* what the program of a deployment command is on the host: docker as the
\* capability checks find it, uvicorn as the package that provides it
program_state(tools, modules, program) ==
    IF program = "docker" THEN tools["docker"]
    ELSE IF modules["uvicorn"] = "ok" THEN "ok" ELSE "not_found"

\* _run_command: Popen raises when the program is not found or may not be
\* executed, both are logged and raised again; else the process runs, and a
\* non-zero return code raises CalledProcessError
run_command(state, returncode) ==
    [raised |-> state \in {"not_found", "permission_error"} \/ returncode # 0,
     error |-> IF state = "not_found" THEN "FileNotFoundError"
               ELSE IF state = "permission_error" THEN PermissionDenied
               ELSE IF returncode # 0 THEN "CalledProcessError" ELSE ""]

\* a command _run_command was called with, and the error it raised, "" for none
Command(name, port, run) == [command |-> name, port |-> port, error |-> run.error]

\* port or self.config.get('api', {}).get('port', 8000)
deploy_port(port, config_port) == IF port # NoPort THEN port ELSE config_port

\* mutant of deploy_docker: the container is run whatever the build did
deploy_docker_run_anyway(state, port, config_port, build_exit, run_exit) ==
    LET build == run_command(state, build_exit)
        run == run_command(state, run_exit)
    IN  [raised |-> run.raised, error |-> run.error,
         commands |-> <<Command("docker build", NoPort, build),
                        Command("docker run", deploy_port(port, config_port), run)>>]

\* deploy_docker: docker build, then docker run when the build returned
deploy_docker(state, port, config_port, build_exit, run_exit) ==
    LET build == run_command(state, build_exit)
        run == run_command(state, run_exit)
    IN  IF build.raised
        THEN [raised |-> TRUE, error |-> build.error,
              commands |-> <<Command("docker build", NoPort, build)>>]
        ELSE [raised |-> run.raised, error |-> run.error,
              commands |-> <<Command("docker build", NoPort, build),
                             Command("docker run", deploy_port(port, config_port), run)>>]

\* deploy_local: uvicorn main:app --host ... --port ... --reload
deploy_local(state, port, config_port, exit) ==
    LET run == run_command(state, exit)
    IN  [raised |-> run.raised, error |-> run.error,
         commands |-> <<Command("uvicorn", deploy_port(port, config_port), run)>>]

\* deploy_kubernetes: a placeholder that runs nothing
deploy_kubernetes == [raised |-> FALSE, error |-> "", commands |-> <<>>]

\* the branch of deploy after the healing
deploy_target(target, tools, modules, port, config_port, build_exit, run_exit) ==
    IF target = "docker"
    THEN deploy_docker(program_state(tools, modules, "docker"), port, config_port,
                       build_exit, run_exit)
    ELSE IF target = "local"
    THEN deploy_local(program_state(tools, modules, "uvicorn"), port, config_port,
                      run_exit)
    ELSE IF target = "k8s" THEN deploy_kubernetes
    ELSE [raised |-> TRUE, error |-> "Unknown deployment target", commands |-> <<>>]

\* Deployer(): its IntelligentConfig and config = get_dynamic_config()
DeployerInit ==
    /\ cfg_pc = "idle"
    /\ \E c \in {get_dynamic_config(host_tools, host_modules, available_modules,
                                      torch_imported, torch_cuda, free_ports,
                                      ollama_listed, ollama_shown, dirs)} :
           /\ ConfigCalled(c)
           /\ available_modules' = c.cache
           /\ dirs' = c.dirs
           /\ deploy_call' = IF c.raised THEN NoDeploy
                             ELSE [NoDeploy EXCEPT !.constructed = TRUE,
                                                   !.config_port = c.config.api.port]
    /\ UNCHANGED <<heal_frame, host_modules, data_file, heal_call, task_call,
                   serving_vars>>

\* deploy(target, port): heal_project first; when it returned, the target's branch
\* for every target, port and return code of the commands
Deploy ==
    /\ deploy_call.constructed
    /\ Heals
    /\ \E target \in Targets, port \in DeployPorts, build_exit \in ExitCodes,
          run_exit \in ExitCodes :
       LET d == deploy_target(target, host_tools, host_modules', port,
                              deploy_call.config_port, build_exit, run_exit)
       IN  deploy_call' =
               IF heal_call'.raised
               THEN [deploy_call EXCEPT !.done = TRUE, !.target = target,
                                        !.raised = TRUE, !.error = heal_call'.error,
                                        !.healed = FALSE, !.commands = <<>>]
               ELSE [deploy_call EXCEPT !.done = TRUE, !.target = target,
                                        !.raised = d.raised, !.error = d.error,
                                        !.healed = TRUE, !.commands = d.commands]
    /\ UNCHANGED <<task_call, serving_vars>>

----------------------------------------------------------------------------
(* The host changes under the process *)

\* a tool is installed, removed, starts to fail or to hang, or loses its x bit
ToolChanges ==
    \E c \in Commands : \E st \in CommandStates \ {host_tools[c]} :
        /\ host_epoch < MaxHostChanges
        /\ host_tools' = [host_tools EXCEPT ![c] = st]
        /\ host_epoch' = host_epoch + 1
        /\ UNCHANGED <<host_modules, torch_cuda, free_ports, ollama_listed,
                       ollama_shown, dirs, config_state, serving_vars, project_vars>>

\* a package is installed (pip install, as heal_project runs it), removed or broken
ModuleChanges ==
    \E m \in Modules : \E st \in ModuleStates \ {host_modules[m]} :
        /\ host_epoch < MaxHostChanges
        /\ host_modules' = [host_modules EXCEPT ![m] = st]
        /\ host_epoch' = host_epoch + 1
        /\ UNCHANGED <<host_tools, torch_cuda, free_ports, ollama_listed,
                       ollama_shown, dirs, config_state, serving_vars, project_vars>>

\* the CUDA device torch sees appears or disappears
CudaChanges ==
    /\ host_epoch < MaxHostChanges
    /\ torch_cuda' = ~torch_cuda
    /\ host_epoch' = host_epoch + 1
    /\ UNCHANGED <<host_tools, host_modules, free_ports, ollama_listed,
                   ollama_shown, dirs, config_state, serving_vars, project_vars>>

\* the IntelligentConfig of a process that has not yet probed anything
FreshConfig ==
    /\ available_modules = [m \in {} |-> TRUE]
    /\ ports_call = NoPortsCall
    \* try: import torch / except ImportError: torch = None
    /\ torch_imported = (host_modules["torch"] = "ok")
    /\ main_import = "importing"
    /\ cfg_pc = "idle"
    /\ cfg = NoCfg
    /\ last_probe = NoProbe
    /\ last_call = NoCall
    /\ call_repeated = FALSE
    /\ heal_call = NoHeal
    /\ task_call = NoTask
    /\ deploy_call = NoDeploy

\* a project without data/raw/data.csv on a host that reaches no package index
BareProject ==
    /\ data_file = NoDataFile
    /\ pip_works = FALSE

\* main.py before its model load: nothing loaded, nothing served
BeforeServing ==
    /\ variant = "main"
    /\ pc = "startup"
    /\ JOBLIB_AVAILABLE = TRUE
    /\ PANDAS_AVAILABLE = TRUE
    /\ dvc = "import_error"
    /\ sklearn = "ok"
    /\ model_file = "absent"
    /\ preprocessor_file = "absent"
    /\ artifact_features = SyntheticFeatures
    /\ model_loader = NewLoader
    /\ attempted = <<>>
    /\ MODEL = None
    /\ PREPROCESSOR = None
    /\ MODEL_LOADED = FALSE
    /\ prediction_errors = 0
    /\ response = NoResponse
    /\ invoked = {}
    /\ request = NoRequest

StartPorts == DefaultStartPort..(DefaultStartPort + 2)

NumPorts == (0..MaxNumPorts) \cup {DefaultNumPorts}

InitPorts ==
    /\ host_tools = [c \in Commands |-> "not_found"]
    /\ host_modules = [m \in Modules |-> "missing"]
    /\ torch_cuda = FALSE
    /\ free_ports \in SUBSET PortUniverse
    /\ ollama_listed = [ok |-> FALSE, names |-> <<>>]
    /\ ollama_shown = {}
    /\ dirs = {}
    /\ host_epoch = 0
    /\ FreshConfig
    /\ BareProject
    /\ BeforeServing

NextPorts ==
    \/ \E start_port \in StartPorts, num_ports \in NumPorts :
           GetAvailablePorts(start_port, num_ports)
    \/ PortTaken
    \/ PortReleased

SpecPorts == InitPorts /\ [][NextPorts]_vars

\* a host with no tool, no package but perhaps torch, at most one free port
InitConfig ==
    /\ host_tools = [c \in Commands |-> "not_found"]
    /\ \E t \in {"missing", "ok"} :
           host_modules = [m \in Modules |-> IF m = "torch" THEN t ELSE "missing"]
    /\ torch_cuda = FALSE
    /\ free_ports \in {{}, {DefaultStartPort}}
    /\ ollama_listed = [ok |-> FALSE, names |-> <<>>]
    /\ ollama_shown = {}
    /\ dirs = {}
    /\ host_epoch = 0
    /\ FreshConfig
    /\ BareProject
    /\ BeforeServing

NextConfig ==
    \/ DetectEnvironment
    \/ ConfigDetect
    \/ ConfigPaths
    \/ ConfigModels
    \/ ConfigLlm
    \/ ConfigMonitoring
    \/ ToolChanges
    \/ ModuleChanges
    \/ CudaChanges
    \/ PortTaken
    \/ PortReleased

SpecConfig == InitConfig /\ [][NextConfig]_vars

\* a project directory in one of the states heal_project is called in, on a
\* host where pandas and the package index are there or not
InitHeal ==
    /\ host_tools = [c \in Commands |-> "not_found"]
    /\ \E p \in ModuleStates :
           host_modules = [m \in Modules |-> IF m = "pandas" THEN p ELSE "missing"]
    /\ torch_cuda = FALSE
    /\ free_ports = {}
    /\ ollama_listed = [ok |-> FALSE, names |-> <<>>]
    /\ ollama_shown = {}
    /\ dirs \in {{}, data_raw_dirs, data_raw_dirs \cup SeqOf(required_dirs)}
    /\ host_epoch = 0
    /\ FreshConfig
    /\ data_file \in {NoDataFile} \cup
                     (IF "data/raw" \in dirs
                      THEN {[header |-> UserColumns, by |-> "user"]} ELSE {})
    /\ pip_works \in BOOLEAN
    /\ BeforeServing

NextHeal ==
    \/ HealProject
    \/ CreateSampleData
    \/ DataProcessorCreateSampleData
    \/ DirRemoved
    \/ DataFileRemoved
    \/ ModuleChanges

SpecHeal == InitHeal /\ [][NextHeal]_vars

\* a host for the agent's tasks: docker there or not to be executed, pandas
\* there, missing or broken
InitAgent ==
    /\ \E t \in {"not_found", "ok", "permission_error"} :
           host_tools = [c \in Commands |-> IF c = "docker" THEN t ELSE "not_found"]
    /\ \E p \in ModuleStates :
           host_modules = [m \in Modules |-> IF m = "pandas" THEN p ELSE "missing"]
    /\ torch_cuda = FALSE
    /\ free_ports = {}
    /\ ollama_listed = [ok |-> FALSE, names |-> <<>>]
    /\ ollama_shown = {}
    /\ dirs = {}
    /\ host_epoch = 0
    /\ FreshConfig
    /\ data_file = NoDataFile
    /\ pip_works \in BOOLEAN
    /\ BeforeServing

NextAgent ==
    \/ OrchestrateAgentTask

SpecAgent == InitAgent /\ [][NextAgent]_vars

\* the module cache main.py has after its import: heal_project (line 23) has
\* asked for critical_deps, get_dynamic_config (line 28) for the packages
StartupCache(modules) ==
    [m \in SeqOf(critical_deps) \cup SeqOf(Packages) \cup {MonitoringPackage} |->
        import_module(modules, m) = "ok"]

\* what main.py imports at its top: lines 5-13
MainImports == {"fastapi", "pandas", "sklearn", "uvicorn", MonitoringPackage}

\* the bodies sent to main.py here: one that does not validate and the
\* matrices of one row
OneRowBodies ==
    {body \in Bodies : body.kind = "scalar" \/ (body.kind = "matrix" /\ Len(body.data) = 1)}

\* main.py with its routes registered, about to load the model, in a healed
\* project on a host where docker is missing, there, or not to be executed
InitMain ==
    /\ \E t \in {"not_found", "ok", "permission_error"} :
           host_tools = [c \in Commands |-> IF c = "docker" THEN t ELSE "not_found"]
    /\ host_modules = [m \in Modules |-> IF m \in MainImports THEN "ok" ELSE "missing"]
    /\ torch_cuda = FALSE
    /\ free_ports = {}
    /\ ollama_listed = [ok |-> FALSE, names |-> <<>>]
    /\ ollama_shown = {}
    /\ dirs = ProjectDirs
    /\ host_epoch = 0
    /\ available_modules = StartupCache(host_modules)
    /\ ports_call = NoPortsCall
    /\ torch_imported = FALSE
    /\ main_import = "registered"
    /\ cfg_pc = "idle"
    /\ cfg = NoCfg
    /\ last_probe = NoProbe
    /\ last_call = NoCall
    /\ call_repeated = FALSE
    /\ heal_call = NoHeal
    /\ task_call = NoTask
    /\ deploy_call = NoDeploy
    /\ data_file \in {NoDataFile, [header |-> sample_columns, by |-> "IntelligentConfig"]}
    /\ pip_works \in BOOLEAN
    /\ variant = "main"
    /\ pc = "startup"
    /\ JOBLIB_AVAILABLE = TRUE
    /\ PANDAS_AVAILABLE = TRUE
    /\ dvc = "import_error"
    /\ sklearn = "ok"
    /\ model_file \in {"absent", "ok"}
    /\ preprocessor_file = model_file
    /\ artifact_features \in FeatureCounts
    /\ model_loader = NewLoader
    /\ attempted = <<>>
    /\ MODEL = None
    /\ PREPROCESSOR = None
    /\ MODEL_LOADED = FALSE
    /\ prediction_errors = 0
    /\ response = NoResponse
    /\ invoked = {}
    /\ request = NoRequest

NextMain ==
    \/ StartupLoad
    \/ main_readiness_check
    \/ \E body \in OneRowBodies : main_post_predict(body)
    \/ main_health_check
    \/ trigger_healing
    \/ \E task \in AgentTasks : execute_agent_task(task)

\* main.py serving requests
SpecMain == InitMain /\ [][NextMain]_vars

\* a project to deploy, healed or not, on a host where docker and uvicorn
\* are installed or not
InitDeploy ==
    /\ \E t \in {"not_found", "ok"} :
           host_tools = [c \in Commands |-> IF c = "docker" THEN t ELSE "not_found"]
    /\ \E u \in {"missing", "ok"}, p \in ModuleStates :
           host_modules = [m \in Modules |-> IF m = "uvicorn" THEN u
                                             ELSE IF m = "pandas" THEN p
                                             ELSE "missing"]
    /\ torch_cuda = FALSE
    /\ free_ports = {}
    /\ ollama_listed = [ok |-> FALSE, names |-> <<>>]
    /\ ollama_shown = {}
    /\ dirs \in {{}, ProjectDirs}
    /\ host_epoch = 0
    /\ FreshConfig
    /\ data_file = NoDataFile
    /\ pip_works \in BOOLEAN
    /\ BeforeServing

NextDeploy ==
    \/ DeployerInit
    \/ Deploy
    \/ DataFileRemoved

SpecDeploy == InitDeploy /\ [][NextDeploy]_vars

\* the route decorators of main.py, line 100 on: the path prefix is
\* config['api']['version']
register_routes(config) ==
    IF "version" \in DOMAIN config.api THEN "registered" ELSE "KeyError"

\* main.py, line 28 to line 170: config = get_dynamic_config() has finished;
\* when it returned, the model load (which catches every exception), the app
\* and then the routes follow
main_import_routes ==
    /\ variant = "main"
    /\ main_import = "importing"
    /\ cfg_pc = "idle"
    /\ last_call.done
    /\ main_import' = IF last_call.raised THEN "raised"
                      ELSE register_routes(last_call.config)
    /\ UNCHANGED <<host, available_modules, ports_call, torch_imported, cfg_pc, cfg,
                   last_probe, last_call, call_repeated, serving_vars, project_vars>>

NextStartup ==
    \/ ConfigDetect
    \/ ConfigPaths
    \/ ConfigModels
    \/ ConfigLlm
    \/ ConfigMonitoring
    \/ ToolChanges
    \/ main_import_routes

SpecStartup == InitConfig /\ [][NextStartup]_vars

\* what `ollama list` can answer: exit status and the models below the header
OllamaListings ==
    {[ok |-> o, names |-> n] :
        o \in BOOLEAN, n \in UNION {[1..k -> OllamaModels] : k \in 0..MaxListed}}

\* a host of which only ollama is known: the command, its models
InitLlm ==
    /\ \E st \in CommandStates :
           host_tools = [c \in Commands |-> IF c = "ollama" THEN st ELSE "not_found"]
    /\ host_modules = [m \in Modules |-> "missing"]
    /\ torch_cuda = FALSE
    /\ free_ports = {}
    /\ ollama_listed \in OllamaListings
    /\ ollama_shown \in SUBSET {fallback_models[i] : i \in 1..Len(fallback_models)}
    /\ dirs = {}
    /\ host_epoch = 0
    /\ FreshConfig
    /\ BareProject
    /\ BeforeServing

NextLlm ==
    \/ ConfigDetect
    \/ ConfigPaths
    \/ ConfigModels
    \/ ConfigLlm
    \/ ConfigMonitoring

SpecLlm == InitLlm /\ [][NextLlm]_vars

----------------------------------------------------------------------------
(* Specification *)

Init ==
    /\ variant \in Variants
    /\ pc = CASE variant = "main" -> "startup"
              [] variant = "main_intelligent" -> "load_with_dvc"
              [] variant = "main_simple" -> "serving"
    \* main.py and main_simple.py import joblib and pandas unconditionally
    /\ JOBLIB_AVAILABLE \in (IF variant = "main_intelligent" THEN BOOLEAN ELSE {TRUE})
    /\ PANDAS_AVAILABLE \in (IF variant = "main_intelligent" THEN BOOLEAN ELSE {TRUE})
    \* only main_intelligent.py reaches for the remote store and the fallback
    /\ dvc \in (IF variant = "main_intelligent" THEN DvcStates ELSE {"import_error"})
    /\ sklearn \in (IF variant = "main_intelligent" THEN SklearnStates ELSE {"ok"})
    /\ model_file \in FileStates
    /\ preprocessor_file \in FileStates
    /\ artifact_features \in FeatureCounts
    /\ model_loader = NewLoader
    /\ attempted = <<>>
    /\ MODEL = None
    /\ PREPROCESSOR = None
    /\ MODEL_LOADED = FALSE
    /\ prediction_errors = 0
    /\ response = NoResponse
    /\ invoked = {}
    /\ request = NoRequest
    /\ BareHost
    /\ FreshConfig
    /\ BareProject

Next ==
    \/ LoadWithDvc
    \/ LoadFromDisk
    \/ CreateDummyModel
    \/ StartupLoad
    \/ main_readiness_check
    \/ \E body \in Bodies : main_post_predict(body)
    \/ main_health_check
    \/ trigger_healing
    \/ intelligent_health_check
    \/ intelligent_readiness_check
    \/ \E body \in ListBodies : intelligent_post_predict(body)
    \/ simple_health_check
    \/ simple_readiness_check
    \/ \E body \in ListBodies : simple_post_predict(body)
    \/ train_model
    \/ process_data
    \/ clean

\* the three modules as loaders and request handlers: each handler acts on the
\* state its module's load leaves; how far the import of main.py itself gets
\* with the configuration it is given is SpecStartup
Spec == Init /\ [][Next]_vars


----------------------------------------------------------------------------
(* Vocabulary of the properties *)

StrategyOrder == <<"dvc", "disk", "dummy">>

\* load_models has returned or raised
LoadFinished == variant = "main_intelligent" /\ pc \in {"serving", "raised"}

FullyPresent(l) == l.model # None /\ l.preprocessor # None /\ l.model_available

FullyAbsent(l) == l.model = None /\ l.preprocessor = None /\ ~l.model_available

SyntheticBundle ==
    [model |-> IntelligentFallbackModel, preprocessor |-> IntelligentPreprocessor,
     model_available |-> TRUE]

\* the strategy whose success ended load_models
Producer == attempted[Len(attempted)].strategy

\* the active bundle of the running variant is absent
BundleAbsent ==
    CASE variant = "main" -> ~MODEL_LOADED
      [] variant = "main_intelligent" -> ~model_loader.model_available
      [] variant = "main_simple" -> model_file # "ok" \/ preprocessor_file # "ok"

PredictStep ==
    \E data \in Matrices :
        main_predict(data) \/ intelligent_predict(data) \/ simple_predict(data)

ReadyStep ==
    main_readiness_check \/ intelligent_readiness_check \/ simple_readiness_check

\* the loader state one recorded attempt leaves behind
AttemptEffect(l, a, f) ==
    CASE a.strategy = "dvc" -> load_with_dvc(l, a.outcome, f).loader
      [] a.strategy = "disk" -> load_from_disk(l, a.outcome, f).loader
      [] a.strategy = "dummy" -> create_dummy_model(l, a.outcome).loader

\* the loader state a sequence of attempts leaves behind
RECURSIVE Replay(_, _, _)
Replay(l, as, f) ==
    IF as = <<>> THEN l ELSE Replay(AttemptEffect(l, Head(as), f), Tail(as), f)

ProvenanceTags == {"remote-versioned", "local-disk", "synthetic-fallback"}

TagOfStrategy(st) ==
    CASE st = "dvc" -> "remote-versioned"
      [] st = "disk" -> "local-disk"
      [] st = "dummy" -> "synthetic-fallback"

\* the most favourable reading of the type name /health reports as a tag
TagOfType(t) ==
    IF t = "IntelligentFallbackModel" THEN "synthetic-fallback" ELSE "local-disk"

----------------------------------------------------------------------------
(* Properties *)

\* C1: load_models attempts the strategies in the order remote fetch, disk
\* load, synthetic fallback; a strategy is attempted only when every earlier
\* one raised, none after a success, each at most once.
C1_FixedOrder ==
    /\ Len(attempted) <= Len(StrategyOrder)
    /\ \A i \in 1..Len(attempted) :
         /\ attempted[i].strategy = StrategyOrder[i]
         /\ i < Len(attempted) => attempted[i].raised
    /\ (attempted # <<>> /\ ~attempted[Len(attempted)].raised) => pc = "serving"

C1_Witness ==
    /\ pc = "serving"
    /\ Len(attempted) = 3
    /\ attempted[1].raised /\ attempted[2].raised /\ ~attempted[3].raised

\* C2: with the remote store unavailable and no local artifact, load_models
\* never raises and ends with the synthetic bundle installed.
C2_NeverRaises ==
    (/\ LoadFinished
     /\ Len(attempted) >= 2
     /\ attempted[1].outcome = "import_error"
     /\ attempted[2].outcome = "absent")
    => (pc = "serving" /\ model_loader = SyntheticBundle)

\* C3: once load_models has returned or raised, the bundle is fully present
\* or fully absent.
C3_AllOrNothing ==
    LoadFinished => (FullyPresent(model_loader) \/ FullyAbsent(model_loader))

\* C4: after the startup load of main.py, MODEL, PREPROCESSOR and
\* MODEL_LOADED are all populated or all absent.
C4_StartupAllOrNothing ==
    Serving("main") =>
        \/ (MODEL # None /\ PREPROCESSOR # None /\ MODEL_LOADED)
        \/ (MODEL = None /\ PREPROCESSOR = None /\ ~MODEL_LOADED)

\* C5: in every variant, predict against an absent bundle answers 503 and
\* calls neither the preprocessor nor the model.
C5_AbsentPredict503 ==
    [][(PredictStep /\ BundleAbsent)
       => (response'.status_code = 503 /\ invoked' = {})]_vars

\* C6: in every variant, /ready answers 200 exactly when the bundle is
\* available and 503 exactly when it is absent.
C6_ReadyReflectsAvailability ==
    [][ReadyStep
       => /\ (response'.status_code = 200) <=> ~BundleAbsent
          /\ (response'.status_code = 503) <=> BundleAbsent]_vars

C8_FatalIffSyntheticRaises ==
    variant = "main_intelligent" =>
        (pc = "raised" <=>
            \E i \in 1..Len(attempted) :
                attempted[i].strategy = "dummy" /\ attempted[i].raised)

C8_Witness ==
    /\ pc = "raised"
    /\ Len(attempted) = 3
    /\ attempted[1].raised /\ attempted[2].raised /\ attempted[3].raised

\* C9: in the disk strategy a deserialization error is treated as an absent
\* file is: the strategy fails, the synthetic strategy comes next, and the
\* final loader state is the one an absent file leads to.
C9_DeserializeErrorAsAbsent ==
    (/\ LoadFinished
     /\ Len(attempted) >= 2
     /\ attempted[2].outcome \in {"model_error", "preprocessor_error"})
    => /\ attempted[2].raised
       /\ Len(attempted) = 3
       /\ attempted[3].strategy = "dummy"
       /\ model_loader =
            Replay(NewLoader, [attempted EXCEPT ![2].outcome = "absent"],
                   artifact_features)

----------------------------------------------------------------------------
(* C11 *)

SeqRange(q) == {q[i] : i \in 1..Len(q)}

Ascending(q) == \A i \in 1..Len(q), j \in 1..Len(q) : i < j => q[i] < q[j]

\* the ports a get_available_ports call could bind among those it probed
Bindable(call) ==
    {p \in call.free : call.start_port <= p /\ p < call.start_port + call.num_ports}

\* C11: get_available_ports probes start_port, start_port + 1, ... in ascending
\* order and returns exactly the ports it could bind, in ascending order; when
\* it could bind none it returns the one-element list [start_port]; it never
\* returns the empty list.
C11_PortsAscendingNeverEmpty ==
    ports_call.called =>
        /\ \A i \in 1..Len(ports_call.tried) :
               ports_call.tried[i] = ports_call.start_port + i - 1
        /\ Len(ports_call.tried) = (IF ports_call.num_ports > 0
                                    THEN ports_call.num_ports ELSE 0)
        /\ ports_call.result # <<>>
        /\ IF Bindable(ports_call) # {}
           THEN /\ SeqRange(ports_call.result) = Bindable(ports_call)
                /\ Ascending(ports_call.result)
           ELSE ports_call.result = <<ports_call.start_port>>

\* a call that skipped a taken port between two ports it could bind
C11_Witness ==
    /\ ports_call.called
    /\ Len(ports_call.result) >= 2
    /\ \E p \in SeqRange(ports_call.tried) :
           /\ p \notin SeqRange(ports_call.result)
           /\ ports_call.result[1] < p
           /\ p < ports_call.result[Len(ports_call.result)]

----------------------------------------------------------------------------
(* C12 - C15 *)

ToolNames == {Tools[i] : i \in 1..Len(Tools)}

PackageNames == {Packages[i] : i \in 1..Len(Packages)}

\* the host is as it was when the last detect_environment ran
ProbeIsCurrent == last_probe.done /\ last_probe.epoch = host_epoch

\* the host has not changed since the last get_dynamic_config call began
CallIsCurrent == last_call.done /\ last_call.epoch_begin = host_epoch

\* C12: every capability check fails closed: whatever goes wrong while probing
\* (any error, non-zero exit, timeout), no exception leaves detect_environment
\* or get_dynamic_config, and the tool whose probe failed is reported absent.
C12_ChecksFailClosed ==
    /\ last_probe.done => ~last_probe.raised
    /\ last_call.done => ~last_call.raised
    /\ ProbeIsCurrent /\ ~last_probe.raised =>
           \A t \in ToolNames : host_tools[t] # "ok" => ~last_probe.env_info.has[t]

\* C13: a detect_environment call reports every tool and package as the host
\* has it at the time of that call, whatever an earlier probe on the same
\* IntelligentConfig observed.
C13_ProbeReflectsHostAtCall ==
    ProbeIsCurrent /\ ~last_probe.raised =>
        /\ \A t \in ToolNames : last_probe.env_info.has[t] = (host_tools[t] = "ok")
        /\ \A m \in PackageNames :
               last_probe.env_info.has[m] = (host_modules[m] = "ok")

\* no GPU, no tool, no package, no free port
AllAbsent ==
    /\ \A c \in Commands : host_tools[c] = "not_found"
    /\ \A m \in Modules : host_modules[m] = "missing"
    /\ ~torch_cuda
    /\ free_ports = {}

Sections == {"project", "api", "paths", "data", "models", "llm", "monitoring",
             "environment"}

\* C14: on a host where every optional capability is absent, get_dynamic_config
\* returns without raising a tree with the sections project, api, paths, data,
\* models, llm, monitoring and environment, project.name omnitide-ai-suite and
\* the LLM integration disabled.
C14_CompleteWhenAllAbsent ==
    CallIsCurrent /\ AllAbsent =>
        /\ ~last_call.raised
        /\ DOMAIN last_call.config = Sections
        /\ last_call.config.project.name = "omnitide-ai-suite"
        /\ ~last_call.config.llm.enabled

\* a configuration built on the bare host: the default port, nothing detected
C14_Witness ==
    /\ CallIsCurrent
    /\ AllAbsent
    /\ last_call.config.api.port = DefaultStartPort
    /\ ~last_call.config.models.use_gpu
    /\ \A n \in ToolNames \cup PackageNames : ~last_call.config.environment.has[n]

\* a get_dynamic_config call returns or raises in this step
ConfigReturns ==
    \/ ConfigDetect /\ cfg_pc' = "idle"
    \/ ConfigModels /\ cfg_pc' = "idle"
    \/ ConfigLlm /\ cfg_pc' = "idle"
    \/ ConfigMonitoring

\* C15: a get_dynamic_config call that ends while the host is still as it was
\* when the call before it began returns what that call returned (or raises
\* as it raised): nothing the first call did changes the second's result.
C15_Idempotent ==
    [][ConfigReturns /\ last_call.done /\ last_call.epoch_begin = host_epoch
           => /\ last_call'.raised = last_call.raised
              /\ last_call'.config = last_call.config]_vars

\* a second call has returned on an unchanged host, after the first one filled
\* the module cache and made the directories
C15_Witness ==
    /\ call_repeated
    /\ CallIsCurrent
    /\ ~last_call.raised
    /\ DOMAIN available_modules = PackageNames \cup {MonitoringPackage}
    /\ dirs = PathDirs
    /\ Len(last_call.config.environment.available_ports) >= 2

----------------------------------------------------------------------------
(* C16 *)

PreferenceSet == {fallback_models[i] : i \in 1..Len(fallback_models)}

\* name is the first entry of the preference list that `ollama show` confirms,
\* or the first entry of the list when it confirms none
FirstConfirmed(name) ==
    \/ \E i \in 1..Len(fallback_models) :
           /\ name = fallback_models[i]
           /\ name \in ollama_shown
           /\ \A j \in 1..(i - 1) : fallback_models[j] \notin ollama_shown
    \/ /\ PreferenceSet \cap ollama_shown = {}
       /\ name = fallback_models[1]

\* the last get_dynamic_config call returned a configuration with the LLM enabled
LlmEnabled == last_call.done /\ ~last_call.raised /\ last_call.config.llm.enabled

\* `ollama list` exits 0 and prints at least one model
SomeListed == ollama_listed.ok /\ ollama_listed.names # <<>>

\* C16 as stated: with the LLM integration enabled, the model name is the first
\* entry of the preference list that the probe confirms, else phi3:mini, and so
\* always a member of the preference list.
C16_ModelByPreference ==
    LlmEnabled =>
        /\ last_call.config.llm.model \in PreferenceSet
        /\ FirstConfirmed(last_call.config.llm.model)

\* C16 amended: with the LLM integration enabled, the model name is the first
\* model `ollama list` prints when it prints one, whether or not that model is
\* in the preference list; only otherwise it is the first entry of the
\* preference list that `ollama show` confirms, else phi3:mini.
C16_FirstListedElsePreference ==
    LlmEnabled =>
        IF SomeListed
        THEN last_call.config.llm.model = ollama_listed.names[1]
        ELSE /\ last_call.config.llm.model \in PreferenceSet
             /\ FirstConfirmed(last_call.config.llm.model)

\* the configured model is an installed one outside the preference list, while
\* a preferred one is confirmed too
C16_Witness ==
    /\ LlmEnabled
    /\ SomeListed
    /\ last_call.config.llm.model \notin PreferenceSet
    /\ ollama_shown # {}

----------------------------------------------------------------------------
(* C17 - C19 *)

\* the bundle a serving process predicts with
ActiveModel == IF variant = "main" THEN MODEL ELSE model_loader.model

ActivePreprocessor == IF variant = "main" THEN PREPROCESSOR ELSE model_loader.preprocessor

\* the bodies that fail the schema of the module: for main.py a missing data
\* field or data that is no matrix of numbers, for the other two a missing data
\* field or data that is no list
FailsSchema(body) ==
    IF variant = "main" THEN body.kind \in {"words", "scalar", "missing"}
    ELSE body.kind \in {"scalar", "missing"}

\* C17: a predict request whose body fails schema validation is answered 422
\* without the handler running: neither the preprocessor nor the model is
\* invoked, no prediction error is counted and the bundle is left as it was,
\* loaded or not.
C17_InvalidBodyRejected ==
    [][FailsSchema(request')
           => /\ response'.status_code = 422
              /\ invoked' = {}
              /\ UNCHANGED <<MODEL, PREPROCESSOR, MODEL_LOADED, model_loader,
                             prediction_errors>>]_vars

\* main.py, bundle loaded, has rejected a matrix holding a cell that is no number
C17_Witness ==
    /\ Serving("main")
    /\ MODEL_LOADED
    /\ request.kind = "words"
    /\ response.endpoint = "predict"
    /\ response.status_code = 422
    /\ invoked = {}

\* the last request was a predict that main.py or main_intelligent.py answered
\* with predictions
Predicted ==
    /\ variant \in {"main", "main_intelligent"}
    /\ pc = "serving"
    /\ request.kind = "matrix"
    /\ response.endpoint = "predict"
    /\ response.status_code = 200

\* C18: a predict answered with predictions carries one prediction per row of
\* the request, and the i-th prediction is what the model gives for the i-th
\* row alone.
C18_OnePredictionPerRowInOrder ==
    Predicted =>
        /\ Len(response.prediction) = Len(request.data)
        /\ \A i \in 1..Len(request.data) :
               response.prediction[i] =
                   PredictRow(ActiveModel,
                              Transform(ActivePreprocessor, <<request.data[i]>>)[1])

\* predictions for two rows that the model tells apart
C18_Witness ==
    /\ Predicted
    /\ Len(request.data) >= 2
    /\ response.prediction[1] # response.prediction[2]

\* a body the loaded bundle can predict on: at least one row, every row as wide
\* as the preprocessor was fitted
WellFormed(body) ==
    /\ body.kind = "matrix"
    /\ Len(body.data) >= 1
    /\ MODEL_LOADED => \A i \in 1..Len(body.data) :
                           Len(body.data[i]) = PREPROCESSOR.n_features

\* C19: once main.py serves it can always predict, whether or not the artifacts
\* exist: ready answers 200 ready and a well-formed predict answers 200.
C19_MainAlwaysServes ==
    Serving("main") =>
        /\ response.endpoint = "ready" =>
               response.status_code = 200 /\ response.status = "ready"
        /\ response.endpoint = "predict" /\ WellFormed(request) =>
               response.status_code = 200

----------------------------------------------------------------------------
(* C20 *)

\* C20: with the configuration get_dynamic_config returns, main.py comes up:
\* its routes are registered under the prefix found in the api section of that
\* configuration, so that GET /v1/health can be answered.
C20_MainStartsUnderApiVersion ==
    main_import # "KeyError"



----------------------------------------------------------------------------
(* Healing the project *)

\* the entries of an action list with the given text
EntriesOf(actions, text) == {i \in 1..Len(actions) : actions[i].text = text}

\* the directories an action list reports as created
ReportedDirs(actions) ==
    {actions[i].about : i \in EntriesOf(actions, "Created directory")}

HealReturned == heal_call.done /\ ~heal_call.raised

\* the base path had none of the required directories when heal_project began
NothingThere == heal_call.dirs_before \cap SeqOf(required_dirs) = {}

ValidationOutcomes ==
    {"Configuration validated successfully", "Configuration validation failed"}

\* C21: a heal_project that returns from a base path on which none of the
\* required directories existed has made data/raw, data/processed, models,
\* reports, logs and data/raw/data.csv, and its action list holds one
\* "Created directory" entry for each of the five and "Created sample data file"
C21_HealCreatesAllMissing ==
    (HealReturned /\ NothingThere) =>
        /\ SeqOf(required_dirs) \subseteq heal_call.dirs
        /\ heal_call.data_file # NoDataFile
        /\ \A d \in SeqOf(required_dirs) :
               Cardinality({i \in EntriesOf(heal_call.actions, "Created directory") :
                               heal_call.actions[i].about = d}) = 1
        /\ EntriesOf(heal_call.actions, "Created sample data file") # {}

C21_Witness ==
    /\ HealReturned
    /\ heal_call.dirs_before = {}
    /\ Cardinality(ReportedDirs(heal_call.actions)) = Len(required_dirs)

\* C24: a sample data file written by IntelligentConfig.create_sample_data or
\* by data_processor.create_sample_data has the expected columns as its header
\* and passes validate_data
C24_SampleHeaderExpected ==
    data_file.by \in {"IntelligentConfig", "data_processor"} =>
        /\ data_file.header = expected_columns
        /\ ~validate_data(data_file.header).raised

C29_ListEndsWithValidation ==
    /\ HealReturned =>
           LET actions == heal_call.actions
               failed == EntriesOf(actions, "Failed to install dependencies")
           IN  /\ actions # <<>>
               /\ actions[Len(actions)].text \in ValidationOutcomes
               /\ \A i \in 1..(Len(actions) - 1) :
                      actions[i].text \notin ValidationOutcomes
               /\ \A i \in failed :
                      /\ i < Len(actions)
                      /\ heal_call.file_before = NoDataFile =>
                             \E j \in EntriesOf(actions, "Created sample data file") :
                                 i < j
    /\ heal_call.validation = "raised" =>
           /\ HealReturned
           /\ heal_call.actions[Len(heal_call.actions)].text =
                  "Configuration validation failed"
    /\ (HealReturned /\ heal_call.validation = "returned") =>
           heal_call.actions[Len(heal_call.actions)].text =
               "Configuration validated successfully"

C29_Witness ==
    /\ HealReturned
    /\ heal_call.validation = "raised"
    /\ EntriesOf(heal_call.actions, "Failed to install dependencies") # {}
    /\ EntriesOf(heal_call.actions, "Created sample data file") # {}

KnownTasks == {"heal", "detect", "adapt", "install_deps"}

\* C22: orchestrate_agent_task returns a record: with success for heal, detect
\* and adapt, holding the action list or the environment profile; without
\* success and with "Unknown task" for a name that is none of the four tasks
C22_TaskRecords ==
    task_call.done =>
        /\ task_call.task_name \in {"heal", "detect", "adapt"} => task_call.success
        /\ (task_call.task_name = "heal" /\ task_call.success) =>
               task_call.actions # <<>>
        /\ (task_call.task_name = "detect" /\ task_call.success) =>
               task_call.environment # NoEnvInfo
        /\ task_call.task_name \notin KnownTasks =>
               ~task_call.success /\ task_call.error = "Unknown task"
\* C27: in a configuration get_dynamic_config returns, llm.enabled is
\* environment.has_ollama, models.use_gpu is environment.has_gpu and api.port
\* is the first of environment.available_ports
C27_OneSnapshot ==
    (last_call.done /\ ~last_call.raised) =>
        LET config == last_call.config
        IN  /\ config.llm.enabled = config.environment.has["ollama"]
            /\ config.models.use_gpu = config.environment.has_gpu
            /\ config.api.port = config.environment.available_ports[1]
\* C23: POST agent/execute answers 200 with the record orchestrate_agent_task
\* returned when that record reports success, and 400 carrying the record
\* when it reports failure, never another status
C23_AgentStatusFollowsSuccess ==
    response.endpoint = "agent" =>
        /\ response.record = task_call
        /\ response.status_code = (IF task_call.success THEN 200 ELSE 400)

C23_Witness ==
    /\ response.endpoint = "agent"
    /\ response.status_code = 400
    /\ response.record.error = "Installation failed"

\* the predict handler of main.py is called with a body its preprocessor rejects
PredictFails(body) ==
    /\ MODEL_LOADED
    /\ PredictionInput(body)
    /\ TransformRaises(PREPROCESSOR, body.data)

\* C26: an exception that leaves detect_environment or heal_project in a
\* handler of main.py is answered 500 with the exception's message as detail;
\* a predict whose preprocessor raises is answered 500 with the error text and
\* counts one prediction error; every 500 leaves the process serving and
\* MODEL, PREPROCESSOR and MODEL_LOADED as they were
C26_ExceptionsBecome500 ==
    [][response' # response =>
          /\ response'.endpoint = "health" =>
                 IF last_probe'.raised
                 THEN /\ response'.status_code = 500
                      /\ response'.detail = last_probe'.error
                      /\ response'.detail # ""
                 ELSE response'.status_code = 200
          /\ response'.endpoint = "heal" =>
                 IF heal_call'.raised
                 THEN /\ response'.status_code = 500
                      /\ response'.detail = heal_call'.error
                      /\ response'.detail # ""
                 ELSE response'.status_code = 200
          /\ (response'.endpoint = "predict" /\ PredictFails(request')) =>
                 /\ response'.status_code = 500
                 /\ response'.detail = TransformError
                 /\ prediction_errors' = prediction_errors + 1
          /\ response'.status_code = 500 =>
                 /\ pc' = "serving"
                 /\ UNCHANGED <<MODEL, PREPROCESSOR, MODEL_LOADED>>]_vars

C26_Witness ==
    /\ response.endpoint = "health"
    /\ response.status_code = 500
    /\ response.detail = PermissionDenied
    /\ prediction_errors > 0
    /\ MODEL_LOADED
CommandNames(commands) == [i \in 1..Len(commands) |-> commands[i].command]

\* C30: a deploy runs a deployment command only after heal_project has
\* returned; for a target other than docker, local and k8s it raises and
\* runs no command, with ValueError once the healing has returned; for docker
\* the build comes first and the run only after a build that exited 0
C30_HealThenDeploy ==
    deploy_call.done =>
        /\ deploy_call.commands # <<>> => deploy_call.healed
        /\ deploy_call.healed = (heal_call.done /\ ~heal_call.raised)
        /\ deploy_call.target \notin {"docker", "local", "k8s"} =>
               /\ deploy_call.raised
               /\ deploy_call.commands = <<>>
               /\ deploy_call.healed => deploy_call.error = "Unknown deployment target"
        /\ (deploy_call.target = "docker" /\ deploy_call.healed) =>
               /\ CommandNames(deploy_call.commands) \in
                      {<<"docker build">>, <<"docker build", "docker run">>}
               /\ Len(deploy_call.commands) = 2 <=> deploy_call.commands[1].error = ""

C30_Witness ==
    /\ deploy_call.done
    /\ deploy_call.target = "docker"
    /\ deploy_call.healed
    /\ CommandNames(deploy_call.commands) = <<"docker build">>
    /\ deploy_call.commands[1].error = "CalledProcessError"
====
